---- MODULE Spec2Model ----
(***************************************************************************)
(* TTL cache of src/src/cache.py (backends, CacheManager, the cached       *)
(* decorator, invalidate_cache) and the plan reads and mutations of        *)
(* src/src/services_helpers.py that use it.                                *)
(*                                                                         *)
(* Python values are records [t |-> type name, s |-> str(value)], so that  *)
(* str() of an int and of a str can coincide as they do in Python.  Time   *)
(* is time.time() sampled on an integer grid.                              *)
(***************************************************************************)
EXTENDS Integers, Sequences, FiniteSets, TLC

VARIABLES
    now,          \* time.time()
    cache,        \* InMemoryCache._cache   : key -> value
    expiry,       \* InMemoryCache._expiry  : key -> absolute expiry time
    redis,        \* the remote store's database : key -> [val, exp]
    backend,      \* which CacheBackend the CacheManager wraps
    enabled,      \* CacheManager.enabled
    planVer,      \* upstream: number of mutations applied to the plans of the service
                  \* type, or to the person (-1 once the person is deleted)
    last,         \* the most recent call and what it returned
    written,      \* history: key -> the most recent successful set not yet deleted
    invalidated,  \* history: keys invalidated while cached and not stored since
    probe,        \* two calls of generate_key and the keys they returned
    thr,          \* threads inside the cache: thread -> its call, position and locals
    boot          \* the environment, the module global _cache_manager and its calls

vars == <<now, cache, expiry, redis, backend, enabled, planVer, last, written, invalidated,
          probe, thr, boot>>

(***************************************************************************)
(* Bounds of the model.                                                    *)
(***************************************************************************)
MaxTime == 3
MaxTTL == 2
MaxVer == 1
PlanStep == 400
MaxPlanTime == 400

(***************************************************************************)
(* Python values.                                                          *)
(***************************************************************************)
None == [t |-> "NoneType", s |-> "None"]
PyTrue == [t |-> "bool", s |-> "True"]
PyFalse == [t |-> "bool", s |-> "False"]
PyBool(b) == IF b THEN PyTrue ELSE PyFalse
PyInt1 == [t |-> "int", s |-> "1"]
PyStr1 == [t |-> "str", s |-> "1"]
PyInt2 == [t |-> "int", s |-> "2"]
PyInt10 == [t |-> "int", s |-> "10"]
PyNested == [t |-> "dict", s |-> "{'a': [1, 2], 'b': {'c': 'd'}}"]
PyTuple == [t |-> "tuple", s |-> "(1, 2)"]
PyList == [t |-> "list", s |-> "[1, 2]"]
PySet == [t |-> "set", s |-> "{1}"]
PyStr2 == [t |-> "str", s |-> "2"]
PyFuture == [t |-> "str", s |-> "future"]
PyPast == [t |-> "str", s |-> "past"]
PySortDate == [t |-> "str", s |-> "-sort_date"]
PyEmptyList == [t |-> "list", s |-> "[]"]
\* the pypco.PCO client: str() of an object without __str__
PyPco == [t |-> "PCO", s |-> "<pypco.pco.PCO object at 0x7f0000000000>"]
PyInt3 == [t |-> "int", s |-> "3"]
PyInt4 == [t |-> "int", s |-> "4"]
PyStrA == [t |-> "str", s |-> "a"]
PyStrB == [t |-> "str", s |-> "b"]
PyStrAB == [t |-> "str", s |-> "a:b"]
PyStrAA == [t |-> "str", s |-> "a:a"]

\* str(arg), f"{v}"
Str(v) == v.s

(***************************************************************************)
(* The store a backend operation reads and writes, and what it returns.    *)
(***************************************************************************)
World == [cache |-> cache, expiry |-> expiry, redis |-> redis]
Res(r, w) == [ret |-> r, w |-> w]

DictSet(d, k, v) == [x \in (DOMAIN d) \cup {k} |-> IF x = k THEN v ELSE d[x]]
DictDel(d, k) == [x \in (DOMAIN d) \ {k} |-> d[x]]
EmptyDict == [x \in {} |-> None]

(***************************************************************************)
(* InMemoryCache                                                           *)
(***************************************************************************)
\* InMemoryCache.delete that removes the value and keeps the expiry time
InMemoryCache_delete_value_only(w, key) ==
    Res(PyTrue, [w EXCEPT !.cache = DictDel(w.cache, key)])

\* InMemoryCache.delete that drops every entry
InMemoryCache_delete_sweeping(w, key) ==
    Res(PyTrue, [w EXCEPT !.cache = EmptyDict, !.expiry = EmptyDict])

InMemoryCache_delete(w, key) ==
    Res(PyTrue, [w EXCEPT !.cache = DictDel(w.cache, key),
                          !.expiry = DictDel(w.expiry, key)])

\* InMemoryCache.get without the expiry test
InMemoryCache_get_unexpiring(w, key, t) ==
    IF key \notin DOMAIN w.cache THEN Res(None, w) ELSE Res(w.cache[key], w)

\* InMemoryCache.get with the expiry test off by one (>= for >)
InMemoryCache_get_early(w, key, t) ==
    IF key \notin DOMAIN w.cache
    THEN Res(None, w)
    ELSE IF key \in DOMAIN w.expiry /\ t >= w.expiry[key]
         THEN Res(None, InMemoryCache_delete(w, key).w)
         ELSE Res(w.cache[key], w)

\* InMemoryCache.get that still serves an entry one time unit past its expiry
InMemoryCache_get_late(w, key, t) ==
    IF key \notin DOMAIN w.cache
    THEN Res(None, w)
    ELSE IF key \in DOMAIN w.expiry /\ t > w.expiry[key] + 1
         THEN Res(None, InMemoryCache_delete(w, key).w)
         ELSE Res(w.cache[key], w)

\* InMemoryCache.get whose hit pushes the entry's expiry time on
InMemoryCache_get_refreshing(w, key, t) ==
    IF key \notin DOMAIN w.cache
    THEN Res(None, w)
    ELSE IF key \in DOMAIN w.expiry /\ t > w.expiry[key]
         THEN Res(None, InMemoryCache_delete(w, key).w)
         ELSE Res(w.cache[key], [w EXCEPT !.expiry = DictSet(w.expiry, key, t + 1)])

InMemoryCache_get(w, key, t) ==
    IF key \notin DOMAIN w.cache
    THEN Res(None, w)
    ELSE IF key \in DOMAIN w.expiry /\ t > w.expiry[key]
         THEN Res(None, InMemoryCache_delete(w, key).w)
         ELSE Res(w.cache[key], w)

\* InMemoryCache.set that keeps the value of a key it already holds
InMemoryCache_set_keep(w, key, value, ttl, t) ==
    Res(PyTrue, [w EXCEPT !.cache = IF key \in DOMAIN w.cache THEN w.cache
                                    ELSE DictSet(w.cache, key, value),
                          !.expiry = DictSet(w.expiry, key, t + ttl)])

\* InMemoryCache.set that keeps the expiry of a key it already holds
InMemoryCache_set_keep_expiry(w, key, value, ttl, t) ==
    Res(PyTrue, [w EXCEPT !.cache = DictSet(w.cache, key, value),
                          !.expiry = IF key \in DOMAIN w.expiry THEN w.expiry
                                     ELSE DictSet(w.expiry, key, t + ttl)])

InMemoryCache_set(w, key, value, ttl, t) ==
    Res(PyTrue, [w EXCEPT !.cache = DictSet(w.cache, key, value),
                          !.expiry = DictSet(w.expiry, key, t + ttl)])

\* InMemoryCache.clear that forgets the expiry times and keeps the values
InMemoryCache_clear_expiry_only(w) ==
    Res(PyTrue, [w EXCEPT !.expiry = EmptyDict])

InMemoryCache_clear(w) ==
    Res(PyTrue, [w EXCEPT !.cache = EmptyDict, !.expiry = EmptyDict])

InMemoryCache_exists(w, key, t) ==
    LET g == InMemoryCache_get(w, key, t) IN Res(PyBool(g.ret # None), g.w)

\* cleanup_expired that also removes the entries expiring at this very time
InMemoryCache_cleanup_expired_inclusive(w, t) ==
    LET expired_keys == {key \in DOMAIN w.expiry : t >= w.expiry[key]} IN
    Res(None, [w EXCEPT !.cache = [x \in (DOMAIN w.cache) \ expired_keys |-> w.cache[x]],
                        !.expiry = [x \in (DOMAIN w.expiry) \ expired_keys |-> w.expiry[x]]])

InMemoryCache_cleanup_expired(w, t) ==
    LET expired_keys == {key \in DOMAIN w.expiry : t > w.expiry[key]} IN
    Res(None, [w EXCEPT !.cache = [x \in (DOMAIN w.cache) \ expired_keys |-> w.cache[x]],
                        !.expiry = [x \in (DOMAIN w.expiry) \ expired_keys |-> w.expiry[x]]])

(***************************************************************************)
(* RedisCache.  The server keeps each value with the expiry SETEX gave it  *)
(* and stops serving it once the expiry has passed; conn says whether the  *)
(* command reaches the server (otherwise redis-py raises).                 *)
(***************************************************************************)
JsonSerializable(v) == v.t \in {"NoneType", "bool", "int", "str", "list", "tuple", "dict"}

\* json.dumps(value)
JsonDumps(v) ==
    CASE v = None -> "null"
      [] v = PyTrue -> "true"
      [] v = PyFalse -> "false"
      [] v.t = "int" -> v.s
      [] v.t = "str" -> "\"" \o v.s \o "\""
      [] v = PyTuple -> "[1, 2]"
      [] v = PyList -> "[1, 2]"
      [] v = PyNested -> "{\"a\": [1, 2], \"b\": {\"c\": \"d\"}}"

\* json.loads(text): [ok |-> FALSE] stands for the JSONDecodeError
JsonLoads(text) ==
    CASE text = "null" -> [ok |-> TRUE, v |-> None]
      [] text = "true" -> [ok |-> TRUE, v |-> PyTrue]
      [] text = "false" -> [ok |-> TRUE, v |-> PyFalse]
      [] text = "1" -> [ok |-> TRUE, v |-> PyInt1]
      [] text = "2" -> [ok |-> TRUE, v |-> PyInt2]
      [] text = "10" -> [ok |-> TRUE, v |-> PyInt10]
      [] text = "\"1\"" -> [ok |-> TRUE, v |-> PyStr1]
      [] text = "[1, 2]" -> [ok |-> TRUE, v |-> PyList]
      [] text = "{\"a\": [1, 2], \"b\": {\"c\": \"d\"}}" -> [ok |-> TRUE, v |-> PyNested]
      [] OTHER -> [ok |-> FALSE, v |-> None]

\* what the server holds for key at time t
RedisServed(w, key, t) == key \in DOMAIN w.redis /\ ~(t > w.redis[key].exp)

\* the exception a method without its try/except would let through
PyRaised == [t |-> "Exception", s |-> "raised"]

\* RedisCache.get without its try/except
RedisCache_get_uncaught(w, key, t, conn) ==
    IF ~conn THEN Res(PyRaised, w)
    ELSE IF ~RedisServed(w, key, t) THEN Res(None, w)
    ELSE LET d == JsonLoads(w.redis[key].val) IN
         IF d.ok THEN Res(d.v, w) ELSE Res(PyRaised, w)

RedisCache_get(w, key, t, conn) ==
    IF ~conn THEN Res(None, w)
    ELSE IF ~RedisServed(w, key, t) THEN Res(None, w)
    ELSE LET d == JsonLoads(w.redis[key].val) IN
         IF d.ok THEN Res(d.v, w) ELSE Res(None, w)

RedisCache_set(w, key, value, ttl, t, conn) ==
    IF ~JsonSerializable(value) THEN Res(PyFalse, w)
    ELSE IF ~conn \/ ttl <= 0 THEN Res(PyFalse, w)
    ELSE Res(PyTrue, [w EXCEPT !.redis =
                 DictSet(w.redis, key, [val |-> JsonDumps(value), exp |-> t + ttl])])

RedisCache_delete(w, key, t, conn) ==
    IF ~conn THEN Res(PyFalse, w)
    ELSE Res(PyBool(RedisServed(w, key, t)), [w EXCEPT !.redis = DictDel(w.redis, key)])

RedisCache_clear(w, conn) ==
    IF ~conn THEN Res(PyFalse, w)
    ELSE Res(PyTrue, [w EXCEPT !.redis = EmptyDict])

RedisCache_exists(w, key, t, conn) ==
    IF ~conn THEN Res(PyFalse, w)
    ELSE Res(PyBool(RedisServed(w, key, t)), w)

(***************************************************************************)
(* CacheManager                                                            *)
(***************************************************************************)
RECURSIVE Join(_, _)
\* sep.join(parts)
Join(parts, sep) ==
    IF Len(parts) = 0 THEN ""
    ELSE IF Len(parts) = 1 THEN parts[1]
    ELSE parts[1] \o sep \o Join(Tail(parts), sep)

\* the keyword names in use, in Python's string order
SortedNames == <<"a", "b", "filter_by", "order", "x">>

\* sorted(kwargs.items()): kwargs is the sequence of [k, v] in call-site order
SortedItems(kwargs) ==
    LET names == {kwargs[i].k : i \in 1..Len(kwargs)}
        order == SelectSeq(SortedNames, LAMBDA n : n \in names)
    IN  [i \in 1..Len(order) |->
            kwargs[CHOOSE j \in 1..Len(kwargs) : kwargs[j].k = order[i]]]

\* hashlib.md5(s.encode()).hexdigest(), taken to be injective
Md5(text) == "md5(" \o text \o ")"

\* generate_key that leaves the keyword arguments out of the key
CacheManager_generate_key_args_only(prefix, args, kwargs) ==
    LET key_parts == <<prefix>> \o [i \in 1..Len(args) |-> Str(args[i])]
        key_string == Join(key_parts, ":")
    IN  prefix \o ":" \o Md5(key_string)

\* generate_key without sorted(): keyword arguments in call-site order
CacheManager_generate_key_unsorted(prefix, args, kwargs) ==
    LET key_parts == <<prefix>>
                     \o [i \in 1..Len(args) |-> Str(args[i])]
                     \o [i \in 1..Len(kwargs) |-> kwargs[i].k \o "=" \o Str(kwargs[i].v)]
        key_string == Join(key_parts, ":")
    IN  prefix \o ":" \o Md5(key_string)

\* generate_key that leaves the keyword names out of the key
CacheManager_generate_key_values_only(prefix, args, kwargs) ==
    LET items == SortedItems(kwargs)
        key_parts == <<prefix>>
                     \o [i \in 1..Len(args) |-> Str(args[i])]
                     \o [i \in 1..Len(items) |-> Str(items[i].v)]
        key_string == Join(key_parts, ":")
    IN  prefix \o ":" \o Md5(key_string)

\* generate_key that returns the digest alone, without the prefix in front
CacheManager_generate_key_digest_only(prefix, args, kwargs) ==
    LET items == SortedItems(kwargs)
        key_parts == <<prefix>>
                     \o [i \in 1..Len(args) |-> Str(args[i])]
                     \o [i \in 1..Len(items) |-> items[i].k \o "=" \o Str(items[i].v)]
        key_string == Join(key_parts, ":")
    IN  Md5(key_string)

\* generate_key that puts each argument's type next to its text
CacheManager_generate_key_typed(prefix, args, kwargs) ==
    LET items == SortedItems(kwargs)
        key_parts == <<prefix>>
                     \o [i \in 1..Len(args) |-> args[i].t \o " " \o Str(args[i])]
                     \o [i \in 1..Len(items) |->
                           items[i].k \o "=" \o items[i].v.t \o " " \o Str(items[i].v)]
        key_string == Join(key_parts, ":")
    IN  prefix \o ":" \o Md5(key_string)

CacheManager_generate_key(prefix, args, kwargs) ==
    LET items == SortedItems(kwargs)
        key_parts == <<prefix>>
                     \o [i \in 1..Len(args) |-> Str(args[i])]
                     \o [i \in 1..Len(items) |-> items[i].k \o "=" \o Str(items[i].v)]
        key_string == Join(key_parts, ":")
    IN  prefix \o ":" \o Md5(key_string)

Backend_get(w, key, t, conn) ==
    IF backend = "memory" THEN InMemoryCache_get(w, key, t)
    ELSE RedisCache_get(w, key, t, conn)

Backend_set(w, key, value, ttl, t, conn) ==
    IF backend = "memory" THEN InMemoryCache_set(w, key, value, ttl, t)
    ELSE RedisCache_set(w, key, value, ttl, t, conn)

Backend_delete(w, key, t, conn) ==
    IF backend = "memory" THEN InMemoryCache_delete(w, key)
    ELSE RedisCache_delete(w, key, t, conn)

Backend_clear(w, conn) ==
    IF backend = "memory" THEN InMemoryCache_clear(w)
    ELSE RedisCache_clear(w, conn)

Backend_exists(w, key, t, conn) ==
    IF backend = "memory" THEN InMemoryCache_exists(w, key, t)
    ELSE RedisCache_exists(w, key, t, conn)

\* CacheManager.get without the test of the enabled flag
CacheManager_get_unguarded(w, en, key, t, conn) == Backend_get(w, key, t, conn)

CacheManager_get(w, en, key, t, conn) ==
    IF ~en THEN Res(None, w) ELSE Backend_get(w, key, t, conn)

\* CacheManager.set without the test of the enabled flag
CacheManager_set_unguarded(w, en, key, value, ttl, t, conn) ==
    Backend_set(w, key, value, ttl, t, conn)

CacheManager_set(w, en, key, value, ttl, t, conn) ==
    IF ~en THEN Res(PyFalse, w) ELSE Backend_set(w, key, value, ttl, t, conn)

\* CacheManager.delete that returns early while the manager is disabled
CacheManager_delete_guarded(w, key, t, conn) ==
    IF ~enabled THEN Res(PyFalse, w) ELSE Backend_delete(w, key, t, conn)

CacheManager_delete(w, key, t, conn) == Backend_delete(w, key, t, conn)

CacheManager_clear(w, conn) == Backend_clear(w, conn)

CacheManager_exists(w, en, key, t, conn) ==
    IF ~en THEN Res(PyFalse, w) ELSE Backend_exists(w, key, t, conn)

\* enable() and disable(): the flag they leave and the store they leave
CacheManager_enable(w, en) == [enabled |-> TRUE, w |-> w]

\* disable() that flips the flag instead of clearing it
CacheManager_disable_toggling(w, en) == [enabled |-> ~en, w |-> w]

\* disable() that also drops the backend's entries
CacheManager_disable_clearing(w, en) == [enabled |-> FALSE, w |-> Backend_clear(w, TRUE).w]

CacheManager_disable(w, en) == [enabled |-> FALSE, w |-> w]

(***************************************************************************)
(* The cached decorator and invalidate_cache.  f is the decorated function *)
(* [name, key_prefix, ttl] (key_prefix "" when none is given), sig the     *)
(* call's [args, kwargs], result what the decorated function returns if    *)
(* the wrapper calls it.                                                   *)
(***************************************************************************)
\* the wrapper without "if result is not None": it stores whatever func returns
cached_wrapper_caching_none(w, en, f, sig, result, t, conn) ==
    LET prefix == IF f.key_prefix # "" THEN f.key_prefix ELSE f.name
        cache_key == CacheManager_generate_key(prefix, sig.args, sig.kwargs)
        got == CacheManager_get(w, en, cache_key, t, conn)
        put == CacheManager_set(got.w, en, cache_key, result, f.ttl, t, conn)
    IN  IF got.ret # None
        THEN [ret |-> got.ret, w |-> got.w, key |-> cache_key,
              invoked |-> FALSE, stored |-> FALSE]
        ELSE [ret |-> result, w |-> put.w, key |-> cache_key,
              invoked |-> TRUE, stored |-> put.ret = PyTrue]

\* the wrapper storing with ttl 0 instead of the decorator's ttl
cached_wrapper_no_ttl(w, en, f, sig, result, t, conn) ==
    LET prefix == IF f.key_prefix # "" THEN f.key_prefix ELSE f.name
        cache_key == CacheManager_generate_key(prefix, sig.args, sig.kwargs)
        got == CacheManager_get(w, en, cache_key, t, conn)
        put == CacheManager_set(got.w, en, cache_key, result, 0, t, conn)
    IN  IF got.ret # None
        THEN [ret |-> got.ret, w |-> got.w, key |-> cache_key,
              invoked |-> FALSE, stored |-> FALSE]
        ELSE IF result # None
        THEN [ret |-> result, w |-> put.w, key |-> cache_key,
              invoked |-> TRUE, stored |-> put.ret = PyTrue]
        ELSE [ret |-> result, w |-> got.w, key |-> cache_key,
              invoked |-> TRUE, stored |-> FALSE]

\* the wrapper storing only results that are true in Python: not None, not []
cached_wrapper_skipping_empty(w, en, f, sig, result, t, conn) ==
    LET prefix == IF f.key_prefix # "" THEN f.key_prefix ELSE f.name
        cache_key == CacheManager_generate_key(prefix, sig.args, sig.kwargs)
        got == CacheManager_get(w, en, cache_key, t, conn)
        put == CacheManager_set(got.w, en, cache_key, result, f.ttl, t, conn)
    IN  IF got.ret # None
        THEN [ret |-> got.ret, w |-> got.w, key |-> cache_key,
              invoked |-> FALSE, stored |-> FALSE]
        ELSE IF result # None /\ result # PyEmptyList
        THEN [ret |-> result, w |-> put.w, key |-> cache_key,
              invoked |-> TRUE, stored |-> put.ret = PyTrue]
        ELSE [ret |-> result, w |-> got.w, key |-> cache_key,
              invoked |-> TRUE, stored |-> FALSE]

\* the wrapper that always takes the function's name as the prefix
cached_wrapper_name_only(w, en, f, sig, result, t, conn) ==
    LET prefix == f.name
        cache_key == CacheManager_generate_key(prefix, sig.args, sig.kwargs)
        got == CacheManager_get(w, en, cache_key, t, conn)
        put == CacheManager_set(got.w, en, cache_key, result, f.ttl, t, conn)
    IN  IF got.ret # None
        THEN [ret |-> got.ret, w |-> got.w, key |-> cache_key,
              invoked |-> FALSE, stored |-> FALSE]
        ELSE IF result # None
        THEN [ret |-> result, w |-> put.w, key |-> cache_key,
              invoked |-> TRUE, stored |-> put.ret = PyTrue]
        ELSE [ret |-> result, w |-> got.w, key |-> cache_key,
              invoked |-> TRUE, stored |-> FALSE]

\* what func does when it raises instead of returning: the exception it raises
PyRaise == [t |-> "raise", s |-> "ValueError('boom')"]

\* the wrapper catching what func raises and returning None
cached_wrapper_swallowing(w, en, f, sig, result, t, conn) ==
    LET prefix == IF f.key_prefix # "" THEN f.key_prefix ELSE f.name
        cache_key == CacheManager_generate_key(prefix, sig.args, sig.kwargs)
        got == CacheManager_get(w, en, cache_key, t, conn)
        put == CacheManager_set(got.w, en, cache_key, result, f.ttl, t, conn)
    IN  IF got.ret # None
        THEN [ret |-> got.ret, w |-> got.w, key |-> cache_key,
              invoked |-> FALSE, stored |-> FALSE]
        ELSE IF result = PyRaise
        THEN [ret |-> None, w |-> got.w, key |-> cache_key,
              invoked |-> TRUE, stored |-> FALSE]
        ELSE IF result # None
        THEN [ret |-> result, w |-> put.w, key |-> cache_key,
              invoked |-> TRUE, stored |-> put.ret = PyTrue]
        ELSE [ret |-> result, w |-> got.w, key |-> cache_key,
              invoked |-> TRUE, stored |-> FALSE]

\* result is what func(args, kwargs) returns, or PyRaise when it raises: the
\* exception leaves the wrapper at line 317, before the cache.set of line 321,
\* and ret is then the exception the caller gets
cached_wrapper(w, en, f, sig, result, t, conn) ==
    LET prefix == IF f.key_prefix # "" THEN f.key_prefix ELSE f.name
        cache_key == CacheManager_generate_key(prefix, sig.args, sig.kwargs)
        got == CacheManager_get(w, en, cache_key, t, conn)
        put == CacheManager_set(got.w, en, cache_key, result, f.ttl, t, conn)
    IN  IF got.ret # None
        THEN [ret |-> got.ret, w |-> got.w, key |-> cache_key,
              invoked |-> FALSE, stored |-> FALSE]
        ELSE IF result # None /\ result # PyRaise
        THEN [ret |-> result, w |-> put.w, key |-> cache_key,
              invoked |-> TRUE, stored |-> put.ret = PyTrue]
        ELSE [ret |-> result, w |-> got.w, key |-> cache_key,
              invoked |-> TRUE, stored |-> FALSE]

\* invalidate_cache that leaves the call's arguments out of the key
invalidate_cache_prefix_only(w, key_prefix, sig, t, conn) ==
    LET cache_key == CacheManager_generate_key(key_prefix, <<>>, <<>>)
        del == CacheManager_delete(w, cache_key, t, conn)
    IN  [ret |-> None, w |-> del.w,
         key |-> CacheManager_generate_key(key_prefix, sig.args, sig.kwargs)]

invalidate_cache(w, key_prefix, sig, t, conn) ==
    LET cache_key == CacheManager_generate_key(key_prefix, sig.args, sig.kwargs)
        del == CacheManager_delete(w, cache_key, t, conn)
    IN  [ret |-> None, w |-> del.w, key |-> cache_key]

clear_all_cache(w, conn) == Res(None, CacheManager_clear(w, conn).w)

(***************************************************************************)
(* Inputs.                                                                 *)
(***************************************************************************)
TestTTL == 1
\* tests/unit/test_cache.py: @cached(ttl=1) def test_function(x)
test_function == [name |-> "test_function", key_prefix |-> "", ttl |-> TestTTL]

Sig(args, kwargs) == [args |-> args, kwargs |-> kwargs]
NoSig == Sig(<<>>, <<>>)
Sigs == {Sig(<<PyInt1>>, <<>>), Sig(<<PyStr1>>, <<>>), Sig(<<PyInt2>>, <<>>)}
Results == {None, PyInt10, PyNested}
RawKeys == {"key1", "key2"}
Values == {None, PyInt10, PyNested}
RemoteKeys == {"key1"}
RemoteValues == {None, PyInt10, PyTuple, PySet}
TTLs == 0..MaxTTL
ManagerValues == {PyInt10, PyNested}
ManagerTTLs == 1..MaxTTL

(***************************************************************************)
(* History: what an operation found and what it left.                      *)
(***************************************************************************)
\* the history's entry for key before the operation
Pre(key) ==
    IF key \in DOMAIN written
    THEN [st |-> IF now <= written[key].exp THEN "live" ELSE "stale",
          val |-> written[key].val, by |-> written[key].by, dis |-> written[key].dis,
          inv |-> key \in invalidated]
    ELSE [st |-> "none", val |-> None, by |-> NoSig, dis |-> FALSE,
          inv |-> key \in invalidated]

\* how the store w1 differs from w0
Delta(w0, w1, key) ==
    IF w1 = w0 THEN "same"
    ELSE IF /\ w1.redis = w0.redis
            /\ key \in DOMAIN w0.expiry /\ now > w0.expiry[key]
            /\ w1.cache = DictDel(w0.cache, key)
            /\ w1.expiry = DictDel(w0.expiry, key)
    THEN "purged"
    ELSE "changed"

Record(op, key, sig, val, ttl, conn, ret, invoked, w1) ==
    /\ cache' = w1.cache
    /\ expiry' = w1.expiry
    /\ redis' = w1.redis
    /\ last' = [op |-> op, key |-> key, sig |-> sig, val |-> val, ttl |-> ttl, conn |-> conn,
                ret |-> ret, invoked |-> invoked, pre |-> Pre(key),
                delta |-> Delta(World, w1, key)]
    /\ UNCHANGED <<probe, thr, boot>>

NoteSet(key, sig, value, ttl, ok) ==
    /\ written' = IF ok
                  THEN DictSet(written, key, [exp |-> now + ttl, val |-> value, by |-> sig,
                                              dis |-> FALSE])
                  ELSE written
    /\ invalidated' = IF ok THEN invalidated \ {key} ELSE invalidated

NoteDelete(key) ==
    /\ written' = DictDel(written, key)
    /\ UNCHANGED invalidated

NoLast == [op |-> "init", key |-> "", sig |-> NoSig, val |-> None, ttl |-> 0,
           conn |-> TRUE, ret |-> None, invoked |-> FALSE,
           pre |-> [st |-> "none", val |-> None, by |-> NoSig, dis |-> FALSE,
                    inv |-> FALSE],
           delta |-> "same"]

\* os.environ as get_cache_manager reads it: CACHE_TYPE ("<unset>" when the
\* variable is not set) and what constructing RedisCache from the REDIS_*
\* variables would raise ("" when it succeeds)
DefaultEnv == [cache_type |-> "<unset>", fault |-> ""]
\* _cache_manager is None: manager 0; calls counts get_cache_manager calls,
\* first and got are the instances the first and the latest call returned,
\* raised whether the latest call raised, kept whether it left the manager's
\* backend, flag and entries alone, sel the environment the backend was
\* selected under, at the environment of the latest call
NotBooted == [env |-> DefaultEnv, manager |-> 0, calls |-> 0, first |-> 0, got |-> 0,
              raised |-> FALSE, kept |-> TRUE, sel |-> DefaultEnv, at |-> DefaultEnv]
\* the manager every other part of the model starts with: created by an
\* earlier get_cache_manager call
Booted == [NotBooted EXCEPT !.manager = 1, !.calls = 1, !.first = 1, !.got = 1]

NoProbe == [op |-> "init", prefix |-> "", a |-> NoSig, b |-> NoSig, ka |-> "", kb |-> ""]

(***************************************************************************)
(* Operations on the backend.                                              *)
(***************************************************************************)
Tick ==
    /\ now < MaxTime
    /\ now' = now + 1
    /\ Record("tick", "", NoSig, None, 0, TRUE, None, FALSE, World)
    /\ UNCHANGED <<backend, enabled, planVer, written, invalidated>>

BackendGet(key, conn) ==
    LET r == Backend_get(World, key, now, conn) IN
    /\ Record("get", key, NoSig, None, 0, conn, r.ret, FALSE, r.w)
    /\ UNCHANGED <<now, backend, enabled, planVer, written, invalidated>>

BackendSet(key, value, ttl, conn) ==
    LET r == Backend_set(World, key, value, ttl, now, conn) IN
    /\ Record("set", key, NoSig, value, ttl, conn, r.ret, FALSE, r.w)
    /\ NoteSet(key, NoSig, value, ttl, r.ret = PyTrue)
    /\ UNCHANGED <<now, backend, enabled, planVer>>

BackendDelete(key, conn) ==
    LET r == Backend_delete(World, key, now, conn) IN
    /\ Record("delete", key, NoSig, None, 0, conn, r.ret, FALSE, r.w)
    /\ NoteDelete(key)
    /\ UNCHANGED <<now, backend, enabled, planVer>>

BackendClear(conn) ==
    LET r == Backend_clear(World, conn) IN
    /\ Record("clear", "", NoSig, None, 0, conn, r.ret, FALSE, r.w)
    /\ written' = EmptyDict
    /\ UNCHANGED <<now, backend, enabled, planVer, invalidated>>

BackendExists(key, conn) ==
    LET r == Backend_exists(World, key, now, conn) IN
    /\ Record("exists", key, NoSig, None, 0, conn, r.ret, FALSE, r.w)
    /\ UNCHANGED <<now, backend, enabled, planVer, written, invalidated>>

CleanupExpired ==
    LET r == InMemoryCache_cleanup_expired(World, now) IN
    /\ Record("cleanup_expired", "", NoSig, None, 0, TRUE, r.ret, FALSE, r.w)
    /\ UNCHANGED <<now, backend, enabled, planVer, written, invalidated>>

InitWith(b) ==
    /\ now = 0
    /\ cache = EmptyDict
    /\ expiry = EmptyDict
    /\ redis = EmptyDict
    /\ backend = b
    /\ enabled = TRUE
    /\ planVer = 0
    /\ last = NoLast
    /\ written = EmptyDict
    /\ invalidated = {}
    /\ probe = NoProbe
    /\ thr = <<>>
    /\ boot = Booted

InitBackend == InitWith("memory")

NextBackend ==
    \/ Tick
    \/ \E key \in RawKeys : BackendGet(key, TRUE)
    \/ \E key \in RawKeys, value \in Values, ttl \in TTLs : BackendSet(key, value, ttl, TRUE)
    \/ \E key \in RawKeys : BackendDelete(key, TRUE)
    \/ BackendClear(TRUE)
    \/ \E key \in RawKeys : BackendExists(key, TRUE)
    \/ CleanupExpired

SpecBackend == InitBackend /\ [][NextBackend]_vars

\* another client of the same Redis database stores text that is not JSON
ForeignText == "<html>"
ForeignSet(key, ttl) ==
    LET w1 == [World EXCEPT !.redis =
                   DictSet(redis, key, [val |-> ForeignText, exp |-> now + ttl])] IN
    /\ Record("foreign_set", key, NoSig, None, ttl, TRUE, None, FALSE, w1)
    /\ NoteDelete(key)
    /\ UNCHANGED <<now, backend, enabled, planVer>>

InitRedis == InitWith("redis")

NextRedis ==
    \/ Tick
    \/ \E key \in RemoteKeys, ttl \in 1..MaxTTL : ForeignSet(key, ttl)
    \/ \E key \in RemoteKeys, conn \in BOOLEAN : BackendGet(key, conn)
    \/ \E key \in RemoteKeys, value \in RemoteValues, ttl \in TTLs, conn \in BOOLEAN :
          BackendSet(key, value, ttl, conn)
    \/ \E key \in RemoteKeys, conn \in BOOLEAN : BackendDelete(key, conn)
    \/ \E conn \in BOOLEAN : BackendClear(conn)
    \/ \E key \in RemoteKeys, conn \in BOOLEAN : BackendExists(key, conn)

SpecRedis == InitRedis /\ [][NextRedis]_vars

(***************************************************************************)
(* Operations on the CacheManager.                                         *)
(***************************************************************************)
ManagerGet(key, conn) ==
    LET r == CacheManager_get(World, enabled, key, now, conn) IN
    /\ Record("get", key, NoSig, None, 0, conn, r.ret, FALSE, r.w)
    /\ UNCHANGED <<now, backend, enabled, planVer, written, invalidated>>

ManagerSet(key, value, ttl, conn) ==
    LET r == CacheManager_set(World, enabled, key, value, ttl, now, conn) IN
    /\ Record("set", key, NoSig, value, ttl, conn, r.ret, FALSE, r.w)
    /\ NoteSet(key, NoSig, value, ttl, r.ret = PyTrue)
    /\ UNCHANGED <<now, backend, enabled, planVer>>

ManagerDelete(key, conn) ==
    LET r == CacheManager_delete(World, key, now, conn) IN
    /\ Record("delete", key, NoSig, None, 0, conn, r.ret, FALSE, r.w)
    /\ NoteDelete(key)
    /\ UNCHANGED <<now, backend, enabled, planVer>>

ManagerClear(conn) ==
    LET r == CacheManager_clear(World, conn) IN
    /\ Record("clear", "", NoSig, None, 0, conn, r.ret, FALSE, r.w)
    /\ written' = EmptyDict
    /\ UNCHANGED <<now, backend, enabled, planVer, invalidated>>

ManagerExists(key, conn) ==
    LET r == CacheManager_exists(World, enabled, key, now, conn) IN
    /\ Record("exists", key, NoSig, None, 0, conn, r.ret, FALSE, r.w)
    /\ UNCHANGED <<now, backend, enabled, planVer, written, invalidated>>

Enable ==
    LET r == CacheManager_enable(World, enabled) IN
    /\ enabled' = r.enabled
    /\ Record("enable", "", NoSig, None, 0, TRUE, None, FALSE, r.w)
    /\ UNCHANGED <<now, backend, planVer, written, invalidated>>

Disable ==
    LET r == CacheManager_disable(World, enabled) IN
    /\ enabled' = r.enabled
    /\ Record("disable", "", NoSig, None, 0, TRUE, None, FALSE, r.w)
    /\ written' = [k \in DOMAIN written |-> [written[k] EXCEPT !.dis = TRUE]]
    /\ UNCHANGED <<now, backend, planVer, invalidated>>

InitManager == InitWith("memory")

NextManager ==
    \/ Tick
    \/ \E key \in RawKeys : ManagerGet(key, TRUE)
    \/ \E key \in RawKeys, value \in ManagerValues, ttl \in ManagerTTLs : ManagerSet(key, value, ttl, TRUE)
    \/ \E key \in RawKeys : ManagerDelete(key, TRUE)
    \/ ManagerClear(TRUE)
    \/ \E key \in RawKeys : ManagerExists(key, TRUE)
    \/ Enable
    \/ Disable

SpecManager == InitManager /\ [][NextManager]_vars

(***************************************************************************)
(* Calls of a decorated function, invalidate_cache and clear_all_cache.    *)
(***************************************************************************)
Call(f, sig, result) ==
    LET r == cached_wrapper(World, enabled, f, sig, result, now, TRUE) IN
    /\ Record("call", r.key, sig, IF r.invoked THEN result ELSE None, f.ttl, TRUE,
              r.ret, r.invoked, r.w)
    /\ written' = IF r.stored
                  THEN DictSet(written, r.key, [exp |-> now + f.ttl, val |-> result,
                                                by |-> sig, dis |-> FALSE])
                  ELSE written
    /\ invalidated' = invalidated \ {r.key}
    /\ UNCHANGED <<now, backend, enabled, planVer>>

Invalidate(key_prefix, sig) ==
    LET r == invalidate_cache(World, key_prefix, sig, now, TRUE) IN
    /\ Record("invalidate", r.key, sig, None, 0, TRUE, r.ret, FALSE, r.w)
    /\ written' = DictDel(written, r.key)
    /\ invalidated' = IF Pre(r.key).st = "live" THEN invalidated \cup {r.key}
                      ELSE invalidated
    /\ UNCHANGED <<now, backend, enabled, planVer>>

ClearAll ==
    LET r == clear_all_cache(World, TRUE) IN
    /\ Record("clear_all", "", NoSig, None, 0, TRUE, r.ret, FALSE, r.w)
    /\ written' = EmptyDict
    /\ UNCHANGED <<now, backend, enabled, planVer, invalidated>>

Init == InitWith("memory")

Next ==
    \/ Tick
    \/ \E sig \in Sigs, result \in Results : Call(test_function, sig, result)
    \/ \E sig \in Sigs : Invalidate(test_function.name, sig)
    \/ ClearAll
    \/ Enable
    \/ Disable

Spec == Init /\ [][Next]_vars

\* the same calls with a decorated function that may also raise
Outcomes == Results \cup {PyRaise}

NextFail ==
    \/ Tick
    \/ \E sig \in Sigs, result \in Outcomes : Call(test_function, sig, result)
    \/ \E sig \in Sigs : Invalidate(test_function.name, sig)
    \/ ClearAll
    \/ Enable
    \/ Disable

SpecFail == Init /\ [][NextFail]_vars

\* Three decorated functions all named test_function: the one above, one
\* with another ttl, and one with key_prefix='custom_prefix'; each is called
\* as f(1) and as f(x=1).
LongTTL == 60
test_function_again == [name |-> "test_function", key_prefix |-> "", ttl |-> LongTTL]
test_function_custom == [name |-> "test_function", key_prefix |-> "custom_prefix",
                         ttl |-> LongTTL]
Decorated == {test_function, test_function_again, test_function_custom}
Positional == Sig(<<PyInt1>>, <<>>)
Keyword == Sig(<<>>, <<[k |-> "x", v |-> PyInt1]>>)
NameSigs == {Positional, Keyword}
Prefixes == {"test_function", "custom_prefix"}

\* what each of the three returns
Returns(f) ==
    CASE f = test_function -> PyInt10
      [] f = test_function_again -> PyNested
      [] f = test_function_custom -> PyList

\* the key the wrapper of f uses for the call sig
KeyOf(f, sig) == cached_wrapper(World, enabled, f, sig, Returns(f), now, TRUE).key

NextNames ==
    \/ Tick
    \/ \E f \in Decorated, sig \in NameSigs : Call(f, sig, Returns(f))
    \/ \E key_prefix \in Prefixes, sig \in NameSigs : Invalidate(key_prefix, sig)

SpecNames == Init /\ [][NextNames]_vars

(***************************************************************************)
(* Plans (services_helpers.py): the cached reads and the mutations that    *)
(* invalidate them.  Upstream holds the plans of service type "1";         *)
(* planVer counts the mutations applied to them, so a list read at         *)
(* version v was fetched before every later mutation.                      *)
(***************************************************************************)
PlansTTL == 300
get_plans == [name |-> "get_plans", key_prefix |-> "", ttl |-> PlansTTL]

ServiceTypeId == PyStr1
PlanId == PyStr2

\* the list get_plans builds from what upstream returns at version v
PlansAt(v) == [t |-> "list", s |-> "plans@" \o ToString(v)]
\* the dict create_plan and update_plan return
PyPlan == [t |-> "dict", s |-> "{'id': '2'}"]

\* the ways the application calls get_plans(pco, service_type_id, ...)
FormPositional == Sig(<<PyPco, ServiceTypeId>>, <<>>)
FormUpcoming == Sig(<<PyPco, ServiceTypeId>>,
                    <<[k |-> "filter_by", v |-> PyFuture], [k |-> "order", v |-> PySortDate]>>)
FormPast == Sig(<<PyPco, ServiceTypeId>>,
                <<[k |-> "filter_by", v |-> PyPast], [k |-> "order", v |-> PySortDate]>>)
FormApi == Sig(<<PyPco, ServiceTypeId>>,
               <<[k |-> "filter_by", v |-> None], [k |-> "order", v |-> PySortDate]>>)
PlanForms == {FormPositional, FormUpcoming, FormPast, FormApi}

PlansKey(form) == CacheManager_generate_key("get_plans", form.args, form.kwargs)

create_plan(w, service_type_id, ok, t) ==
    IF ~ok THEN [ret |-> None, w |-> w, keys |-> {}]
    ELSE LET i == invalidate_cache(w, "get_plans", Sig(<<PyPco, service_type_id>>, <<>>),
                                   t, TRUE)
         IN  [ret |-> PyPlan, w |-> i.w, keys |-> {i.key}]

update_plan(w, service_type_id, plan_id, ok, t) ==
    IF ~ok THEN [ret |-> None, w |-> w, keys |-> {}]
    ELSE LET i == invalidate_cache(w, "get_plan_by_id",
                                   Sig(<<PyPco, service_type_id, plan_id>>, <<>>), t, TRUE)
             j == invalidate_cache(i.w, "get_plans", Sig(<<PyPco, service_type_id>>, <<>>),
                                   t, TRUE)
         IN  [ret |-> PyPlan, w |-> j.w, keys |-> {i.key, j.key}]

delete_plan(w, service_type_id, plan_id, ok, t) ==
    IF ~ok THEN [ret |-> PyFalse, w |-> w, keys |-> {}]
    ELSE LET i == invalidate_cache(w, "get_plan_by_id",
                                   Sig(<<PyPco, service_type_id, plan_id>>, <<>>), t, TRUE)
             j == invalidate_cache(i.w, "get_plans", Sig(<<PyPco, service_type_id>>, <<>>),
                                   t, TRUE)
         IN  [ret |-> PyTrue, w |-> j.w, keys |-> {i.key, j.key}]

TickPlans ==
    /\ now < MaxPlanTime
    /\ now' = now + PlanStep
    /\ Record("tick", "", NoSig, None, 0, TRUE, None, FALSE, World)
    /\ UNCHANGED <<backend, enabled, planVer, written, invalidated>>

\* get_plans called in one of the application's forms; up: upstream answers
GetPlans(form, up) ==
    Call(get_plans, form, IF up THEN PlansAt(planVer) ELSE PyEmptyList)

\* a mutation r (of create_plan, update_plan, delete_plan) and its effect upstream
Mutation(op, r, ok) ==
    /\ ok => planVer < MaxVer
    /\ planVer' = IF ok THEN planVer + 1 ELSE planVer
    /\ Record(op, "", NoSig, None, 0, ok, r.ret, FALSE, r.w)
    /\ written' = [k \in (DOMAIN written) \ r.keys |-> written[k]]
    /\ invalidated' = invalidated \cup {k \in r.keys : Pre(k).st = "live"}
    /\ UNCHANGED <<now, backend, enabled>>

CreatePlan(ok) == Mutation("create_plan", create_plan(World, ServiceTypeId, ok, now), ok)

UpdatePlan(ok) ==
    Mutation("update_plan", update_plan(World, ServiceTypeId, PlanId, ok, now), ok)

DeletePlan(ok) ==
    Mutation("delete_plan", delete_plan(World, ServiceTypeId, PlanId, ok, now), ok)

InitPlans == InitWith("memory")

NextPlans ==
    \/ TickPlans
    \/ \E form \in PlanForms, up \in BOOLEAN : GetPlans(form, up)
    \/ \E ok \in BOOLEAN : CreatePlan(ok)
    \/ \E ok \in BOOLEAN : UpdatePlan(ok)
    \/ \E ok \in BOOLEAN : DeletePlan(ok)

SpecPlans == InitPlans /\ [][NextPlans]_vars

(***************************************************************************)
(* People (pco_helpers_cached.py): the cached reads of person "1" and the  *)
(* mutations of that person.  planVer counts the updates applied upstream  *)
(* and is -1 once the person is deleted.                                   *)
(***************************************************************************)
FindTTL == 300
PersonTTL == 600
find_person_by_name == [name |-> "find_person_by_name", key_prefix |-> "", ttl |-> FindTTL]
get_person_by_id == [name |-> "get_person_by_id", key_prefix |-> "", ttl |-> PersonTTL]
get_person_emails == [name |-> "get_person_emails", key_prefix |-> "", ttl |-> PersonTTL]

PersonId == PyStr1
PyJohn == [t |-> "str", s |-> "John"]
PyDoe == [t |-> "str", s |-> "Doe"]
\* the updated person's data the update functions return
PyUpdated == [t |-> "dict", s |-> "updated"]
FindSig == Sig(<<PyPco, PyJohn, PyDoe>>, <<>>)
PersonSig == Sig(<<PyPco, PersonId>>, <<>>)

\* the dict the person reads build from what upstream returns at version v,
\* None when the person is not there
PersonAt(v) == IF v < 0 THEN None ELSE [t |-> "dict", s |-> "person@" \o ToString(v)]
\* the list get_person_emails builds at version v
EmailsAt(v) == IF v < 0 THEN PyEmptyList ELSE [t |-> "list", s |-> "emails@" \o ToString(v)]

PersonKeys == {CacheManager_generate_key("find_person_by_name", FindSig.args, <<>>),
               CacheManager_generate_key("get_person_by_id", PersonSig.args, <<>>),
               CacheManager_generate_key("get_person_emails", PersonSig.args, <<>>)}

update_person_attribute(w, person_id, ok, t) ==
    IF ~ok THEN [ret |-> None, w |-> w, keys |-> {}]
    ELSE LET i == invalidate_cache(w, "get_person_by_id", Sig(<<PyPco, person_id>>, <<>>),
                                   t, TRUE)
         IN  [ret |-> PyUpdated, w |-> i.w, keys |-> {i.key}]

update_person_attributes(w, person_id, ok, t) ==
    IF ~ok THEN [ret |-> None, w |-> w, keys |-> {}]
    ELSE LET i == invalidate_cache(w, "get_person_by_id", Sig(<<PyPco, person_id>>, <<>>),
                                   t, TRUE)
         IN  [ret |-> PyUpdated, w |-> i.w, keys |-> {i.key}]

delete_person(w, person_id, ok, t) ==
    IF ~ok THEN [ret |-> PyFalse, w |-> w, keys |-> {}]
    ELSE LET i == invalidate_cache(w, "get_person_by_id", Sig(<<PyPco, person_id>>, <<>>),
                                   t, TRUE)
         IN  [ret |-> PyTrue, w |-> i.w, keys |-> {i.key}]

\* up: upstream answers the request
FindPersonByName(up) ==
    Call(find_person_by_name, FindSig, IF up THEN PersonAt(planVer) ELSE None)

GetPersonById(up) ==
    Call(get_person_by_id, PersonSig, IF up THEN PersonAt(planVer) ELSE None)

GetPersonEmails(up) ==
    Call(get_person_emails, PersonSig, IF up THEN EmailsAt(planVer) ELSE PyEmptyList)

\* a mutation r of the person, leaving upstream at version ver when it succeeds
PersonMutation(op, r, ok, ver) ==
    /\ planVer >= 0
    /\ ok => ver <= MaxVer
    /\ planVer' = IF ok THEN ver ELSE planVer
    /\ Record(op, "", NoSig, None, 0, ok, r.ret, FALSE, r.w)
    /\ written' = [k \in (DOMAIN written) \ r.keys |-> written[k]]
    /\ invalidated' = invalidated \cup {k \in r.keys : Pre(k).st = "live"}
    /\ UNCHANGED <<now, backend, enabled>>

UpdatePersonAttribute(ok) ==
    PersonMutation("update_person_attribute",
                   update_person_attribute(World, PersonId, ok, now), ok, planVer + 1)

UpdatePersonAttributes(ok) ==
    PersonMutation("update_person_attributes",
                   update_person_attributes(World, PersonId, ok, now), ok, planVer + 1)

DeletePerson(ok) ==
    PersonMutation("delete_person", delete_person(World, PersonId, ok, now), ok, -1)

InitPeople == InitWith("memory")

NextPeople ==
    \/ TickPlans
    \/ \E up \in BOOLEAN : FindPersonByName(up)
    \/ \E up \in BOOLEAN : GetPersonById(up)
    \/ \E up \in BOOLEAN : GetPersonEmails(up)
    \/ \E ok \in BOOLEAN : UpdatePersonAttribute(ok)
    \/ \E ok \in BOOLEAN : UpdatePersonAttributes(ok)
    \/ \E ok \in BOOLEAN : DeletePerson(ok)

SpecPeople == InitPeople /\ [][NextPeople]_vars

(***************************************************************************)
(* get_cache_manager and the module global _cache_manager.                 *)
(***************************************************************************)
MaxCalls == 3

\* str.lower() on the values CACHE_TYPE takes here
Lower(s) ==
    CASE s = "REDIS" -> "redis"
      [] s = "Redis" -> "redis"
      [] OTHER -> s

\* os.getenv(name, default)
Getenv(value, default) == IF value = "<unset>" THEN default ELSE value

\* get_cache_manager without the try/except around RedisCache(...)
get_cache_manager_no_fallback(bt, be) ==
    IF bt.manager # 0
    THEN [manager |-> bt.manager, backend |-> be, created |-> FALSE, raised |-> FALSE]
    ELSE LET cache_type == Lower(Getenv(bt.env.cache_type, "memory")) IN
         IF cache_type = "redis" /\ bt.env.fault # ""
         THEN [manager |-> 0, backend |-> be, created |-> FALSE, raised |-> TRUE]
         ELSE [manager |-> bt.calls + 1,
               backend |-> IF cache_type = "redis" THEN "redis" ELSE "memory",
               created |-> TRUE, raised |-> FALSE]

\* get_cache_manager without the test "_cache_manager is None"
get_cache_manager_reselecting(bt, be) ==
    LET cache_type == Lower(Getenv(bt.env.cache_type, "memory")) IN
    [manager |-> bt.calls + 1,
     backend |-> IF cache_type = "redis" /\ bt.env.fault = "" THEN "redis" ELSE "memory",
     created |-> TRUE, raised |-> FALSE]

\* bt: boot, be: the backend of the existing manager; a manager it creates
\* is a new instance (numbered by the call that made it)
get_cache_manager(bt, be) ==
    IF bt.manager # 0
    THEN [manager |-> bt.manager, backend |-> be, created |-> FALSE, raised |-> FALSE]
    ELSE LET cache_type == Lower(Getenv(bt.env.cache_type, "memory")) IN
         [manager |-> bt.calls + 1,
          backend |-> IF cache_type = "redis" /\ bt.env.fault = "" THEN "redis" ELSE "memory",
          created |-> TRUE, raised |-> FALSE]

CacheTypes == {"<unset>", "redis", "REDIS", "file"}
Faults == {"", "ImportError", "ConnectionError"}

\* the process environment changes
SetEnv(cache_type, fault) ==
    /\ boot' = [boot EXCEPT !.env = [cache_type |-> cache_type, fault |-> fault]]
    /\ UNCHANGED <<now, cache, expiry, redis, backend, enabled, planVer, last, written,
                   invalidated, probe, thr>>

GetCacheManager ==
    /\ boot.calls < MaxCalls
    /\ LET r == get_cache_manager(boot, backend) IN
       /\ boot' = [boot EXCEPT !.manager = r.manager, !.calls = @ + 1,
                               !.got = IF r.raised THEN 0 ELSE r.manager,
                               !.first = IF boot.calls = 0 THEN r.manager ELSE @,
                               !.raised = r.raised, !.kept = ~r.created,
                               !.sel = IF r.created THEN boot.env ELSE @,
                               !.at = boot.env]
       /\ backend' = r.backend
       /\ enabled' = IF r.created THEN TRUE ELSE enabled
       /\ cache' = IF r.created THEN EmptyDict ELSE cache
       /\ expiry' = IF r.created THEN EmptyDict ELSE expiry
    /\ UNCHANGED <<now, redis, planVer, last, written, invalidated, probe, thr>>

InitBoot ==
    /\ now = 0
    /\ cache = EmptyDict
    /\ expiry = EmptyDict
    /\ redis = EmptyDict
    /\ backend = "none"
    /\ enabled = FALSE
    /\ planVer = 0
    /\ last = NoLast
    /\ written = EmptyDict
    /\ invalidated = {}
    /\ probe = NoProbe
    /\ thr = <<>>
    /\ boot = NotBooted

NextBoot ==
    \/ \E cache_type \in CacheTypes, fault \in Faults : SetEnv(cache_type, fault)
    \/ GetCacheManager
    \/ boot.manager # 0 /\ Enable
    \/ boot.manager # 0 /\ Disable

SpecBoot == InitBoot /\ [][NextBoot]_vars

(***************************************************************************)
(* generate_key on its own: calls with the same prefix.  A call's kwargs   *)
(* are listed in the order the call site writes them.                      *)
(***************************************************************************)
KeyArgs == {<<>>, <<PyInt1>>, <<PyStr1>>, <<PyInt1, PyInt2>>, <<PyInt2, PyInt1>>,
            <<PyInt1, PyStr1>>, <<PyStr1, PyInt1>>, <<PyStrA, PyStrB>>, <<PyStrAB>>,
            <<PyStrA, PyStrAA>>, <<PyStrAA, PyStrA>>}
KeyKwargs == {<<>>, <<[k |-> "a", v |-> PyInt3]>>,
              <<[k |-> "a", v |-> PyInt3], [k |-> "b", v |-> PyInt4]>>,
              <<[k |-> "b", v |-> PyInt4], [k |-> "a", v |-> PyInt3]>>,
              <<[k |-> "a", v |-> PyInt4], [k |-> "b", v |-> PyInt3]>>}
KeySigs == {Sig(args, kwargs) : args \in KeyArgs, kwargs \in KeyKwargs}

\* a call of generate_key; probe keeps it (b, kb) and the call before it
\* (a, ka), and its op is "generate_key" once there are two
GenerateKey(prefix, sig) ==
    /\ probe' = [op |-> IF probe.op = "init" THEN "first" ELSE "generate_key",
                 prefix |-> prefix, a |-> probe.b, ka |-> probe.kb, b |-> sig,
                 kb |-> CacheManager_generate_key(prefix, sig.args, sig.kwargs)]
    /\ UNCHANGED <<now, cache, expiry, redis, backend, enabled, planVer, last, written,
                   invalidated, thr, boot>>

InitKeys == InitWith("memory")

NextKeys == \E sig \in KeySigs : GenerateKey("test_func", sig)

SpecKeys == InitKeys /\ [][NextKeys]_vars

(***************************************************************************)
(* Threads.  Each thread runs one method at a time, one source statement   *)
(* per step; pc names the method and the line of cache.py about to run,    *)
(* stack the lines to return to, tmp the value the last inner call         *)
(* returned.  An exception nobody catches ends the call with the           *)
(* exception as its outcome.                                               *)
(***************************************************************************)
PyKeyError == [t |-> "KeyError", s |-> "KeyError('key1')"]

NoSaw == [some |-> FALSE, val |-> None, exp |-> 0]
IdleThread == [op |-> "", pc |-> "idle", stack |-> <<>>, key |-> "", val |-> None,
               ttl |-> 0, ret |-> None, tmp |-> None, keys |-> <<>>, ct |-> 0,
               invoked |-> FALSE, alone |-> TRUE, saw |-> NoSaw]

Return(th, v) ==
    IF th.stack = <<>> THEN [th EXCEPT !.pc = "done", !.ret = v]
    ELSE [th EXCEPT !.pc = Head(th.stack), !.stack = Tail(th.stack), !.tmp = v]
Raise(th, exc) == [th EXCEPT !.pc = "done", !.stack = <<>>, !.ret = exc]
Goto(th, label) == [th EXCEPT !.pc = label]
CallInner(th, label, back) == [th EXCEPT !.pc = label, !.stack = <<back>> \o th.stack]
Stepped(w, th) == [w |-> w, th |-> th]

\* InMemoryCache.get, lines 53-61
InMemoryCache_get_step(w, th, t) ==
    CASE th.pc = "get53" ->
            IF th.key \notin DOMAIN w.cache THEN Stepped(w, Return(th, None))
            ELSE Stepped(w, Goto(th, "get57"))
      [] th.pc = "get57" ->
            IF th.key \in DOMAIN w.expiry /\ t > w.expiry[th.key]
            THEN Stepped(w, CallInner(th, "delete75", "get59"))
            ELSE Stepped(w, Goto(th, "get61"))
      [] th.pc = "get59" -> Stepped(w, Return(th, None))
      [] th.pc = "get61" ->
            IF th.key \in DOMAIN w.cache THEN Stepped(w, Return(th, w.cache[th.key]))
            ELSE Stepped(w, Raise(th, PyKeyError))

\* InMemoryCache.delete, lines 74-81: a KeyError from del is caught at line 80
InMemoryCache_delete_step(w, th, t) ==
    CASE th.pc = "delete75" ->
            IF th.key \in DOMAIN w.cache THEN Stepped(w, Goto(th, "delete76"))
            ELSE Stepped(w, Goto(th, "delete77"))
      [] th.pc = "delete76" ->
            IF th.key \in DOMAIN w.cache
            THEN Stepped([w EXCEPT !.cache = DictDel(w.cache, th.key)], Goto(th, "delete77"))
            ELSE Stepped(w, Return(th, PyFalse))
      [] th.pc = "delete77" ->
            IF th.key \in DOMAIN w.expiry THEN Stepped(w, Goto(th, "delete78"))
            ELSE Stepped(w, Return(th, PyTrue))
      [] th.pc = "delete78" ->
            IF th.key \in DOMAIN w.expiry
            THEN Stepped([w EXCEPT !.expiry = DictDel(w.expiry, th.key)], Return(th, PyTrue))
            ELSE Stepped(w, Return(th, PyFalse))

\* InMemoryCache.set, lines 66-68
InMemoryCache_set_step(w, th, t) ==
    CASE th.pc = "set66" ->
            Stepped([w EXCEPT !.cache = DictSet(w.cache, th.key, th.val)], Goto(th, "set67"))
      [] th.pc = "set67" ->
            Stepped([w EXCEPT !.expiry = DictSet(w.expiry, th.key, t + th.ttl)],
                    Return(th, PyTrue))

\* InMemoryCache.clear, lines 86-88
InMemoryCache_clear_step(w, th, t) ==
    CASE th.pc = "clear86" -> Stepped([w EXCEPT !.cache = EmptyDict], Goto(th, "clear87"))
      [] th.pc = "clear87" -> Stepped([w EXCEPT !.expiry = EmptyDict], Return(th, PyTrue))

\* a set as a list, in some order
RECURSIVE ListOf(_)
ListOf(S) == IF S = {} THEN <<>> ELSE LET x == CHOOSE x \in S : TRUE IN <<x>> \o ListOf(S \ {x})

\* InMemoryCache.cleanup_expired, lines 98-104
InMemoryCache_cleanup_expired_step(w, th, t) ==
    CASE th.pc = "cleanup98" -> Stepped(w, [Goto(th, "cleanup99") EXCEPT !.ct = t])
      [] th.pc = "cleanup99" ->
            Stepped(w, [Goto(th, "cleanup103") EXCEPT
                          !.keys = ListOf({k \in DOMAIN w.expiry : th.ct > w.expiry[k]})])
      [] th.pc = "cleanup103" ->
            IF th.keys = <<>> THEN Stepped(w, Return(th, None))
            ELSE Stepped(w, [CallInner(th, "delete75", "cleanup103") EXCEPT
                               !.key = Head(th.keys), !.keys = Tail(th.keys)])

\* the wrapper of cached, lines 312-323; th.val is func's result once called
cached_wrapper_step(w, th, t, result) ==
    CASE th.pc = "wrapper312" ->
            IF ~enabled THEN Stepped(w, [Goto(th, "wrapper313") EXCEPT !.tmp = None])
            ELSE Stepped(w, CallInner(th, "get53", "wrapper313"))
      [] th.pc = "wrapper313" ->
            IF th.tmp # None THEN Stepped(w, Return(th, th.tmp))
            ELSE Stepped(w, Goto(th, "wrapper317"))
      [] th.pc = "wrapper317" ->
            Stepped(w, [Goto(th, "wrapper320") EXCEPT !.val = result, !.invoked = TRUE])
      [] th.pc = "wrapper320" ->
            IF th.val # None /\ enabled THEN Stepped(w, CallInner(th, "set66", "wrapper323"))
            ELSE Stepped(w, Goto(th, "wrapper323"))
      [] th.pc = "wrapper323" -> Stepped(w, Return(th, th.val))

\* the statement thread th is at, run on the store w at time t
ThreadStep(w, th, t, result) ==
    CASE th.pc \in {"get53", "get57", "get59", "get61"} -> InMemoryCache_get_step(w, th, t)
      [] th.pc \in {"delete75", "delete76", "delete77", "delete78"} ->
            InMemoryCache_delete_step(w, th, t)
      [] th.pc \in {"set66", "set67"} -> InMemoryCache_set_step(w, th, t)
      [] th.pc \in {"clear86", "clear87"} -> InMemoryCache_clear_step(w, th, t)
      [] th.pc \in {"cleanup98", "cleanup99", "cleanup103"} ->
            InMemoryCache_cleanup_expired_step(w, th, t)
      [] OTHER -> cached_wrapper_step(w, th, t, result)

FirstLine(op) ==
    CASE op = "get" -> "get53"
      [] op = "set" -> "set66"
      [] op = "delete" -> "delete75"
      [] op = "clear" -> "clear86"
      [] op = "cleanup_expired" -> "cleanup98"
      [] op = "call" -> "wrapper312"

Running(th) == th.pc \notin {"idle", "done"}

\* what thread i's invocation of the decorated function returns
ResultOf(i) == [t |-> "str", s |-> "result of invocation " \o ToString(i)]

\* the methods whose purpose is to change what a key holds
Writes == {"set", "delete", "clear"}

\* thread i calls a method of the backend; alone: no set, delete or clear of
\* another thread overlaps the call
Start(i, op, key, value, ttl) ==
    /\ ~Running(thr[i])
    /\ thr' = [j \in DOMAIN thr |->
                 IF j = i
                 THEN [IdleThread EXCEPT
                          !.op = op, !.pc = FirstLine(op), !.key = key,
                          !.val = value, !.ttl = ttl,
                          !.alone = \A o \in DOMAIN thr \ {i} :
                                       ~(Running(thr[o]) /\ thr[o].op \in Writes)]
                 ELSE IF op \in Writes
                      THEN [thr[j] EXCEPT !.saw = NoSaw, !.alone = FALSE]
                      ELSE thr[j]]
    /\ UNCHANGED <<now, cache, expiry, redis, backend, enabled, planVer, last, written,
                   invalidated, probe, boot>>

\* thread th is in get, has found its key expired at line 57 and has not yet
\* deleted anything at line 58
PurgePending(th) == th.op = "get" /\ th.pc \in {"delete75", "delete76"}

\* thread i runs its next statement; a sweep in progress on another thread,
\* or a get about to purge, notes a set that completes meanwhile
StepThread(i) ==
    /\ Running(thr[i])
    /\ LET r == ThreadStep(World, thr[i], now, ResultOf(i))
           completes == thr[i].op = "set" /\ thr[i].pc = "set67" /\ thr[i].alone
       IN  /\ cache' = r.w.cache
           /\ expiry' = r.w.expiry
           /\ thr' = [j \in DOMAIN thr |->
                        IF j = i THEN r.th
                        ELSE IF /\ completes
                                /\ \/ thr[j].op = "cleanup_expired" /\ Running(thr[j])
                                   \/ PurgePending(thr[j])
                             THEN [thr[j] EXCEPT !.saw = [some |-> TRUE, val |-> thr[i].val,
                                                          exp |-> now + thr[i].ttl]]
                             ELSE thr[j]]
    /\ UNCHANGED <<now, redis, backend, enabled, planVer, last, written, invalidated, probe,
                   boot>>

ThreadKey == "key1"
ThreadValues == {PyInt10, PyNested}

InitThreads ==
    /\ now = 0
    /\ cache = EmptyDict
    /\ expiry = EmptyDict
    /\ redis = EmptyDict
    /\ backend = "memory"
    /\ enabled = TRUE
    /\ planVer = 0
    /\ last = NoLast
    /\ written = EmptyDict
    /\ invalidated = {}
    /\ probe = NoProbe
    /\ boot = Booted
    /\ thr = [i \in {1, 2} |-> IdleThread]

NextThreads ==
    \/ Tick
    \/ Start(1, "get", ThreadKey, None, 0)
    \/ \E i \in {1, 2}, value \in ThreadValues : Start(i, "set", ThreadKey, value, TestTTL)
    \/ Start(2, "delete", ThreadKey, None, 0)
    \/ Start(2, "clear", "", None, 0)
    \/ Start(2, "cleanup_expired", "", None, 0)
    \/ \E i \in {1, 2} : StepThread(i)

SpecThreads == InitThreads /\ [][NextThreads]_vars

\* NCallers threads call test_function(1) at once on an empty cache
NCallers == 3
Callers == 1..NCallers
CallersSig == Sig(<<PyInt1>>, <<>>)
CallersKey == CacheManager_generate_key(test_function.name, CallersSig.args, CallersSig.kwargs)

InitCallers ==
    /\ now = 0
    /\ cache = EmptyDict
    /\ expiry = EmptyDict
    /\ redis = EmptyDict
    /\ backend = "memory"
    /\ enabled = TRUE
    /\ planVer = 0
    /\ last = NoLast
    /\ written = EmptyDict
    /\ invalidated = {}
    /\ probe = NoProbe
    /\ boot = Booted
    /\ thr = [i \in Callers |->
                 [IdleThread EXCEPT !.op = "call", !.pc = FirstLine("call"),
                                    !.key = CallersKey, !.ttl = test_function.ttl]]

NextCallers ==
    \/ Tick
    \/ \E i \in Callers : StepThread(i)

SpecCallers == InitCallers /\ [][NextCallers]_vars

\* A call of get_person_by_id in flight while update_person_attribute runs
\* on another thread, and a call made after that update has returned.
InFlight == 1
Mutator == 2
Late == 3
RaceKey == CacheManager_generate_key(get_person_by_id.name, PersonSig.args, PersonSig.kwargs)

\* update_person_attribute, lines 155-162: the PATCH upstream, invalidate_cache
\* (whose cache.delete is line 340 of cache.py), the return
update_person_attribute_step(w, th, t) ==
    CASE th.pc = "update155" -> Stepped(w, Goto(th, "update160"))
      [] th.pc = "update160" -> Stepped(w, CallInner(th, "delete75", "update162"))
      [] th.pc = "update162" -> Stepped(w, Return(th, PyUpdated))

\* thread i calls get_person_by_id; the late call starts only once
\* update_person_attribute has returned
StartRead(i) ==
    /\ thr[i].pc = "idle"
    /\ i = Late => thr[Mutator].pc = "done"
    /\ thr' = [thr EXCEPT ![i] = [IdleThread EXCEPT !.op = "call", !.pc = FirstLine("call"),
                                                    !.key = RaceKey,
                                                    !.ttl = get_person_by_id.ttl]]
    /\ UNCHANGED <<now, cache, expiry, redis, backend, enabled, planVer, last, written,
                   invalidated, probe, boot>>

StartUpdate ==
    /\ thr[Mutator].pc = "idle"
    /\ thr' = [thr EXCEPT ![Mutator] = [IdleThread EXCEPT !.op = "update_person_attribute",
                                                          !.pc = "update155",
                                                          !.key = RaceKey]]
    /\ UNCHANGED <<now, cache, expiry, redis, backend, enabled, planVer, last, written,
                   invalidated, probe, boot>>

\* thread i runs its next statement; the wrapped function returns the person
\* as upstream has it at that moment, the PATCH moves upstream on
StepRace(i) ==
    /\ Running(thr[i])
    /\ LET r == IF thr[i].pc \in {"update155", "update160", "update162"}
                THEN update_person_attribute_step(World, thr[i], now)
                ELSE ThreadStep(World, thr[i], now, PersonAt(planVer))
       IN  /\ cache' = r.w.cache
           /\ expiry' = r.w.expiry
           /\ thr' = [thr EXCEPT ![i] = r.th]
    /\ planVer' = IF thr[i].pc = "update155" THEN planVer + 1 ELSE planVer
    /\ UNCHANGED <<now, redis, backend, enabled, last, written, invalidated, probe, boot>>

InitRace ==
    /\ now = 0
    /\ cache = EmptyDict
    /\ expiry = EmptyDict
    /\ redis = EmptyDict
    /\ backend = "memory"
    /\ enabled = TRUE
    /\ planVer = 0
    /\ last = NoLast
    /\ written = EmptyDict
    /\ invalidated = {}
    /\ probe = NoProbe
    /\ boot = Booted
    /\ thr = [i \in {InFlight, Mutator, Late} |-> IdleThread]

NextRace ==
    \/ Tick
    \/ \E i \in {InFlight, Late} : StartRead(i)
    \/ StartUpdate
    \/ \E i \in {InFlight, Mutator, Late} : StepRace(i)

SpecRace == InitRace /\ [][NextRace]_vars

(***************************************************************************)
(* Properties.                                                             *)
(***************************************************************************)

\* C5: after set(k, v, ttl) at time t, with no delete, clear or overwrite
\* since, InMemoryCache.get(k) returns v at every time now <= t + ttl and
\* None at every time now > t + ttl, and exists(k) is "get(k) is not None"
\* under the same rule; every get and exists that was called returned so.
C5_TtlExpiry ==
    /\ \A k \in DOMAIN written :
          LET g == InMemoryCache_get(World, k, now)
              e == InMemoryCache_exists(World, k, now)
          IN  IF now <= written[k].exp
              THEN g.ret = written[k].val /\ e.ret = PyBool(written[k].val # None)
              ELSE g.ret = None /\ e.ret = PyFalse
    /\ last.op \in {"get", "exists"} /\ last.pre.st = "live" =>
          last.ret = IF last.op = "get" THEN last.pre.val
                     ELSE PyBool(last.pre.val # None)
    /\ last.op \in {"get", "exists"} /\ last.pre.st = "stale" =>
          last.ret = IF last.op = "get" THEN None ELSE PyFalse

\* C5 witness: a get called after the entry's expiry returned None
C5_Witness ==
    /\ last.op = "get" /\ last.pre.st = "stale" /\ last.pre.val # None
    /\ last.ret = None

\* C7: set(k, v, ttl) with ttl > 0 returns True and a get(k) that follows
\* it immediately returns v, whatever v is and whatever k held before.
C7_RoundTrip ==
    last.op = "set" /\ last.ttl > 0 =>
        /\ last.ret = PyTrue
        /\ InMemoryCache_get(World, last.key, now).ret = last.val

\* C7 witness: a nested value was set over an entry holding another value
C7_Witness ==
    /\ last.op = "set" /\ last.ttl > 0 /\ last.val = PyNested
    /\ last.pre.st = "live" /\ last.pre.val = PyInt10
    /\ InMemoryCache_get(World, last.key, now).ret = PyNested

\* C10: on either backend, delete(k) that reaches the store returns True
\* whether or not k is present, afterwards get(k) is None, and a second
\* delete(k) also returns True and leaves the store as it is.
C10_DeleteIdempotent ==
    last.op = "delete" /\ last.conn =>
        /\ last.ret = PyTrue
        /\ Backend_get(World, last.key, now, TRUE).ret = None
        /\ Backend_delete(World, last.key, now, TRUE) = Res(PyTrue, World)

\* C8: while the manager is disabled, for every key, also one set while it
\* was enabled, CacheManager.get returns None, exists returns False and set
\* returns False, and none of the three changes the backend's entries or
\* expiry times; every such call that was made returned so.
C8_DisabledIsInert ==
    ~enabled =>
        /\ \A k \in RawKeys :
              /\ CacheManager_get(World, enabled, k, now, TRUE) = Res(None, World)
              /\ CacheManager_exists(World, enabled, k, now, TRUE) = Res(PyFalse, World)
              /\ \A v \in ManagerValues, ttl \in ManagerTTLs :
                    CacheManager_set(World, enabled, k, v, ttl, now, TRUE)
                        = Res(PyFalse, World)
        /\ last.op = "get" => last.ret = None /\ last.delta = "same"
        /\ last.op \in {"exists", "set"} => last.ret = PyFalse /\ last.delta = "same"

\* C8 witness: a get, while disabled, of a key that was set while enabled
\* and has not expired
C8_Witness ==
    /\ ~enabled /\ last.op = "get" /\ last.pre.st = "live" /\ last.ret = None
    /\ last.key \in DOMAIN cache /\ now <= expiry[last.key]

\* C9: once the manager is enabled again after a disable(), every entry
\* that was set before the disable() and has since been neither deleted,
\* cleared nor overwritten, and has not expired, is returned by get with the
\* value it was set to.
C9_EnableRestores ==
    enabled =>
        /\ \A k \in DOMAIN written :
              written[k].dis /\ now <= written[k].exp =>
                  CacheManager_get(World, enabled, k, now, TRUE).ret = written[k].val
        /\ last.op = "get" /\ last.pre.dis /\ last.pre.st = "live" =>
              last.ret = last.pre.val

\* C9 witness: a get after disable() and enable() returned the value set
\* before the disable()
C9_Witness ==
    /\ enabled /\ last.op = "get" /\ last.pre.dis /\ last.pre.st = "live"
    /\ last.ret = last.pre.val /\ last.ret # None

\* C1 as claimed: with the manager enabled, a call with the arguments of the
\* call whose result is cached, made before the TTL has elapsed and with no
\* invalidate or clear of it in between, returns that result without
\* invoking the underlying operation; a call with any other arguments
\* invokes it.
C1_MemoHitOtherArgsInvoke ==
    last.op = "call" /\ enabled =>
        IF last.pre.st = "live" /\ last.pre.by = last.sig
        THEN ~last.invoked /\ last.ret = last.pre.val
        ELSE last.invoked

\* C1 as amended: the same hit for identical arguments; a call whose key
\* holds no unexpired cached result invokes the underlying operation (a
\* call with other arguments that give the same key shares the entry).
C1_MemoHit ==
    last.op = "call" /\ enabled =>
        /\ last.pre.st = "live" /\ last.pre.by = last.sig =>
              ~last.invoked /\ last.ret = last.pre.val
        /\ last.pre.st # "live" => last.invoked

\* C1 witness: a second call with the same arguments, one tick after the
\* call that cached the result, was served from the cache
C1_Witness ==
    /\ last.op = "call" /\ enabled /\ last.pre.st = "live" /\ last.pre.by = last.sig
    /\ ~last.invoked /\ last.ret = last.pre.val /\ last.ret # None
    /\ now = expiry[last.key]

\* C2: when a call's result is cached and invalidate_cache is called with
\* the same prefix and signature, the next call of the decorated function
\* with that key invokes the underlying operation again and, the manager
\* being enabled and the result not None, stores the new result.
C2_InvalidateThenCall ==
    last.op = "call" /\ last.pre.inv =>
        /\ last.invoked
        /\ last.ret = last.val
        /\ enabled /\ last.val # None =>
              CacheManager_get(World, enabled, last.key, now, TRUE).ret = last.val

\* C2 witness: a call after an invalidation invoked the operation and its
\* new result is in the cache
C2_Witness ==
    /\ last.op = "call" /\ last.pre.inv /\ last.invoked /\ last.val = PyNested
    /\ last.key \in DOMAIN cache /\ cache[last.key] = PyNested

\* C3 as claimed: when the underlying operation returns None the wrapper
\* returns None, the key still misses (so the next call invokes again), and
\* the call leaves the backend's maps exactly as they were.
C3_NoneNotCachedFrame ==
    last.op = "call" /\ last.invoked /\ last.val = None =>
        /\ last.ret = None
        /\ CacheManager_get(World, enabled, last.key, now, TRUE).ret = None
        /\ last.delta = "same"

\* C3 as amended: the same, except that the call may have purged the
\* expired entry of its own key (the lazy purge of cache.get); nothing is
\* stored and no other entry changes.
C3_NoneNotCached ==
    last.op = "call" /\ last.invoked /\ last.val = None =>
        /\ last.ret = None
        /\ CacheManager_get(World, enabled, last.key, now, TRUE).ret = None
        /\ last.delta \in {"same", "purged"}

\* C3 witness: the operation returned None on a call that found its key's
\* entry expired
C3_Witness ==
    /\ last.op = "call" /\ last.invoked /\ last.val = None /\ last.ret = None
    /\ last.pre.st = "stale" /\ last.delta = "purged" /\ last.key \notin DOMAIN cache

\* C6: with the manager enabled, a call whose key holds a result stored at
\* most T ago is a hit (no invocation); a call made more than T after the
\* result was stored invokes the underlying operation and, its result not
\* being None, stores it with expiry now + T.
C6_WrapperTtl ==
    last.op = "call" /\ enabled =>
        /\ last.pre.st = "live" => ~last.invoked /\ last.ret = last.pre.val
        /\ last.pre.st = "stale" =>
              /\ last.invoked
              /\ last.val # None =>
                    /\ last.key \in DOMAIN cache /\ cache[last.key] = last.val
                    /\ expiry[last.key] = now + last.ttl

\* C6 witness: a call after the expiry invoked the operation and stored the
\* new result with a new expiry
C6_Witness ==
    /\ last.op = "call" /\ enabled /\ last.pre.st = "stale" /\ last.invoked
    /\ last.val # None /\ last.key \in DOMAIN cache
    /\ expiry[last.key] = now + TestTTL

\* C4: once create_plan, update_plan or delete_plan has succeeded for a
\* service type, no get_plans call for it, in any of the application's call
\* forms, returns from the cache a list fetched before that mutation: a
\* list served without invoking upstream is the list at the current version.
C4_PlansReflectWrites ==
    /\ last.op = "call" /\ ~last.invoked
    /\ last.key \in {PlansKey(form) : form \in PlanForms}
    /\ last.ret # PyEmptyList
    => last.ret = PlansAt(planVer)

\* C11: on every backend and for every key, exists(k) is true exactly when
\* get(k) returns a value other than None, whether the key is absent,
\* expired, holds None or cannot be reached.
C11_ExistsAgreesWithGet ==
    \A k \in RawKeys \cup RemoteKeys, conn \in BOOLEAN :
        Backend_exists(World, k, now, conn).ret
            = PyBool(Backend_get(World, k, now, conn).ret # None)

\* kwargs as Python holds them: a map, whatever order the call site used
KwMap(kwargs) == {kwargs[i] : i \in 1..Len(kwargs)}
\* two calls passing the same positional tuple and the same keyword map
SameCall(a, b) == a.args = b.args /\ KwMap(a.kwargs) = KwMap(b.kwargs)
\* the text that is hashed for a call: the prefix, str() of each positional
\* argument, then name=value for each keyword in name order
KeyText(prefix, sig) ==
    Join(<<prefix>> \o [i \in 1..Len(sig.args) |-> Str(sig.args[i])]
         \o [i \in 1..Len(sig.kwargs) |->
                LET it == SortedItems(sig.kwargs)[i] IN it.k \o "=" \o Str(it.v)], ":")
\* b passes a's two positional arguments, which differ, in the other order
Swapped(a, b) ==
    /\ Len(a.args) = 2 /\ a.args[1] # a.args[2]
    /\ b.args = <<a.args[2], a.args[1]>>
    /\ KwMap(a.kwargs) = KwMap(b.kwargs)

\* C12 as claimed: for a fixed prefix, two calls of generate_key that differ
\* in their positional tuple or their keyword map return different keys.
C12_DistinctCallsDistinctKeys ==
    probe.op = "generate_key" /\ ~SameCall(probe.a, probe.b) => probe.ka # probe.kb

\* C12 as amended: for a fixed prefix, two calls return different keys
\* exactly when the texts hashed for them differ; calls whose arguments
\* differ but read the same (1 and '1', 'a', 'b' and 'a:b') share a key.
C12_DistinctTextsDistinctKeys ==
    probe.op = "generate_key" =>
        (probe.ka # probe.kb <=> KeyText(probe.prefix, probe.a) # KeyText(probe.prefix, probe.b))

\* C12 witness: two calls that differ only in a keyword's value got
\* different keys
C12_Witness ==
    /\ probe.op = "generate_key" /\ probe.a.args = probe.b.args
    /\ Len(probe.a.args) = 2
    /\ KwMap(probe.a.kwargs) # KwMap(probe.b.kwargs)
    /\ {x.k : x \in KwMap(probe.a.kwargs)} = {x.k : x \in KwMap(probe.b.kwargs)}
    /\ probe.ka # probe.kb

\* C13 as claimed: the same prefix, positional tuple and keyword map give
\* the same key, in whatever order the keywords are written, and passing
\* two different positional arguments in the other order gives another key.
C13_KeyDeterminismSwap ==
    probe.op = "generate_key" =>
        /\ SameCall(probe.a, probe.b) => probe.ka = probe.kb
        /\ Swapped(probe.a, probe.b) => probe.ka # probe.kb

\* C13 as amended: the same, except that passing two different positional
\* arguments in the other order gives another key exactly when it changes
\* the text that is hashed (it does not for 1 and '1').
C13_KeyDeterminism ==
    probe.op = "generate_key" =>
        /\ SameCall(probe.a, probe.b) => probe.ka = probe.kb
        /\ Swapped(probe.a, probe.b) =>
              (probe.ka # probe.kb <=> KeyText(probe.prefix, probe.a) # KeyText(probe.prefix, probe.b))

\* C13 witness: two calls writing the same keywords in different orders got
\* the same key
C13_Witness ==
    /\ probe.op = "generate_key" /\ SameCall(probe.a, probe.b)
    /\ probe.a.kwargs # probe.b.kwargs /\ Len(probe.a.args) = 2
    /\ probe.ka = probe.kb

\* C17: while the manager is disabled, CacheManager.delete, invalidate_cache,
\* CacheManager.clear and clear_all_cache still remove the entries from the
\* backend, so that after enable() the key misses and a call of it invokes
\* the underlying operation: an entry cached while enabled and invalidated
\* while disabled is not served again.
C17_DeleteClearIgnoreEnabled ==
    LET on == CacheManager_enable(World, enabled) IN
    /\ ~enabled =>
          /\ \A k \in DOMAIN cache :
                LET d == CacheManager_delete(World, k, now, TRUE).w IN
                k \notin DOMAIN d.cache /\ k \notin DOMAIN d.expiry
          /\ CacheManager_clear(World, TRUE).w.cache = EmptyDict
    /\ ~enabled /\ last.op = "invalidate" =>
          /\ last.key \notin DOMAIN cache /\ last.key \notin DOMAIN expiry
          /\ CacheManager_get(on.w, on.enabled, last.key, now, TRUE).ret = None
          /\ cached_wrapper(on.w, on.enabled, test_function, last.sig, PyInt10, now,
                            TRUE).invoked
    /\ ~enabled /\ last.op = "clear_all" =>
          /\ cache = EmptyDict /\ expiry = EmptyDict
          /\ \A sig \in Sigs :
                cached_wrapper(on.w, on.enabled, test_function, sig, PyInt10, now,
                               TRUE).invoked
    /\ enabled /\ last.op = "call" /\ last.pre.inv => last.invoked

\* C17 witness: invalidate_cache, called while the manager was disabled,
\* removed an entry that was cached while it was enabled and had not expired
C17_Witness ==
    /\ ~enabled /\ last.op = "invalidate" /\ last.pre.st = "live" /\ last.pre.dis
    /\ last.delta = "changed" /\ last.key \notin DOMAIN cache

\* C18: after InMemoryCache.clear() returns, which it does with True, and
\* after clear_all_cache(), get(k) is None and exists(k) is False for every
\* key, whatever was stored before.
C18_ClearRemovesAll ==
    /\ last.op = "clear" =>
          /\ last.ret = PyTrue
          /\ \A k \in RawKeys :
                /\ InMemoryCache_get(World, k, now).ret = None
                /\ InMemoryCache_exists(World, k, now).ret = PyFalse
    /\ LET c == clear_all_cache(World, TRUE).w IN
       \A k \in RawKeys :
          /\ CacheManager_get(c, TRUE, k, now, TRUE).ret = None
          /\ CacheManager_exists(c, TRUE, k, now, TRUE).ret = PyFalse

\* C18 witness: clear() ran, after time had passed, on a store that held
\* entries and left it empty
C18_Witness ==
    /\ last.op = "clear" /\ last.delta = "changed" /\ last.ret = PyTrue
    /\ DOMAIN written = {} /\ cache = EmptyDict /\ now > 0

\* C19: InMemoryCache.set over a key that already holds a value replaces
\* the value and the expiry: from then on get(k) returns the new value at
\* every time up to now + ttl and None at every later time, whatever the
\* first set's value and expiry were.
C19_SetOverwrites ==
    last.op = "set" =>
        /\ cache[last.key] = last.val
        /\ expiry[last.key] = now + last.ttl
        /\ \A t \in now..(MaxTime + MaxTTL + 1) :
              InMemoryCache_get(World, last.key, t).ret
                  = IF t <= now + last.ttl THEN last.val ELSE None

\* C19 witness: a set with ttl 0 over an unexpired entry holding another
\* value, so that the entry now dies no later than the first set's expiry
C19_Witness ==
    /\ last.op = "set" /\ last.pre.st = "live" /\ last.ttl = 0
    /\ last.pre.val = PyInt10 /\ last.val = PyNested
    /\ cache[last.key] = PyNested /\ expiry[last.key] = now

\* C20: when the command does not reach the Redis server, get returns None
\* and set, delete, exists and clear return False; a set of a value that
\* json.dumps rejects returns False and a get of text that json.loads
\* rejects returns None; nothing is raised, and a failed operation leaves
\* the stored entries as they were.
C20_RemoteFailuresContained ==
    /\ last.ret # PyRaised
    /\ last.op = "get" /\ ~last.conn => last.ret = None /\ last.delta = "same"
    /\ last.op \in {"set", "delete", "exists", "clear"} /\ ~last.conn =>
          last.ret = PyFalse /\ last.delta = "same"
    /\ last.op = "set" /\ ~JsonSerializable(last.val) =>
          last.ret = PyFalse /\ last.delta = "same"
    /\ last.op = "set" /\ last.ret = PyFalse => last.delta = "same"
    /\ \A k \in RemoteKeys :
          RedisServed(World, k, now) /\ ~JsonLoads(redis[k].val).ok =>
              RedisCache_get(World, k, now, TRUE) = Res(None, World)

\* C20 witness: a set that did not reach the server returned False and left
\* the entry it would have replaced
C20_Witness ==
    /\ last.op = "set" /\ ~last.conn /\ last.ret = PyFalse /\ last.ttl > 0
    /\ last.pre.st = "live" /\ last.key \in DOMAIN redis
    /\ redis[last.key].val = JsonDumps(last.pre.val)
    /\ last.val # last.pre.val

\* C14: a get(k) of InMemoryCache that ran while another thread ran
\* delete(k), clear(), set(k, ...) or cleanup_expired(), interleaved
\* statement by statement, did not raise and returned None or a value that
\* was stored for k.
C14_ConcurrentGetSafe ==
    \A i \in DOMAIN thr :
        thr[i].op = "get" /\ thr[i].pc = "done" =>
            /\ thr[i].ret # PyKeyError
            /\ thr[i].ret \in {None} \cup ThreadValues

\* C15: when a set(k, v, ttl) with ttl > 0 completed while cleanup_expired()
\* was in progress on another thread, no other set, delete or clear
\* overlapping that set or called since, then once the sweep has finished
\* get(k) returns v until v's own expiry.
C15_SweepKeepsConcurrentSet ==
    \A j \in DOMAIN thr :
        /\ thr[j].op = "cleanup_expired" /\ thr[j].pc = "done"
        /\ thr[j].saw.some /\ now <= thr[j].saw.exp
        /\ \A i \in DOMAIN thr : ~Running(thr[i])
        => InMemoryCache_get(World, ThreadKey, now).ret = thr[j].saw.val

\* C16: of NCallers concurrent calls of a decorated function with the same
\* arguments on a cache holding nothing for their key, in every
\* interleaving every caller that has returned returned the result of an
\* invocation made by one of them (nothing was raised), and once all have
\* returned the function was invoked at least once and at most NCallers
\* times.
C16_ConcurrentCallersCorrect ==
    LET Invokers == {j \in DOMAIN thr : thr[j].invoked} IN
    /\ \A i \in DOMAIN thr :
          thr[i].op = "call" /\ thr[i].pc = "done" =>
              thr[i].ret \in {ResultOf(j) : j \in Invokers}
    /\ (DOMAIN thr # {} /\ \A i \in DOMAIN thr : thr[i].op = "call" /\ thr[i].pc = "done") =>
          Cardinality(Invokers) >= 1 /\ Cardinality(Invokers) <= NCallers

\* CACHE_TYPE selects the remote backend: "redis" in any letter case
SelectsRemote(cache_type) == cache_type \in {"redis", "REDIS", "Redis"}

\* C21: get_cache_manager never raises and always returns a manager; when
\* CACHE_TYPE selected the remote backend and constructing RedisCache failed
\* the manager's backend is the in-memory one, and so it is when CACHE_TYPE
\* is unset or anything else.
C21_InitFallback ==
    boot.calls > 0 =>
        /\ ~boot.raised /\ boot.manager # 0 /\ boot.got = boot.manager
        /\ SelectsRemote(boot.sel.cache_type) /\ boot.sel.fault # "" => backend = "memory"
        /\ ~SelectsRemote(boot.sel.cache_type) => backend = "memory"
        /\ backend \in {"memory", "redis"}

\* C21 witness: CACHE_TYPE was redis, the server could not be reached, and
\* the manager got the in-memory backend
C21_Witness ==
    /\ boot.calls = 1 /\ ~boot.raised /\ boot.manager # 0
    /\ boot.sel = [cache_type |-> "redis", fault |-> "ConnectionError"]
    /\ backend = "memory"

\* C22: every call of get_cache_manager after the first returns the
\* instance the first call returned and leaves its backend, its enabled
\* flag and its entries as they are; the backend is the one selected under
\* the environment of the first call, whatever the environment is now.
C22_Singleton ==
    boot.calls >= 2 =>
        /\ boot.got = boot.first /\ boot.manager = boot.first /\ boot.kept
        /\ backend = IF SelectsRemote(boot.sel.cache_type) /\ boot.sel.fault = ""
                     THEN "redis" ELSE "memory"

\* C22 witness: a later call, made after CACHE_TYPE changed to redis with a
\* reachable server and after disable(), returned the first instance, still
\* in-memory and still disabled
C22_Witness ==
    /\ boot.calls >= 2 /\ boot.got = boot.first /\ boot.got # 0
    /\ boot.at = [cache_type |-> "redis", fault |-> ""] /\ boot.at # boot.sel
    /\ backend = "memory" /\ ~enabled /\ last.op = "disable"
    /\ boot.env = boot.at

\* C23: enable() and disable() leave every entry, value and expiry time of
\* the backend as it was and set the flag to True and False; calling the
\* same one again changes nothing.
C23_EnableDisableFrame ==
    /\ CacheManager_enable(World, enabled) = [enabled |-> TRUE, w |-> World]
    /\ CacheManager_disable(World, enabled) = [enabled |-> FALSE, w |-> World]
    /\ last.op = "enable" =>
          /\ enabled /\ last.delta = "same"
          /\ CacheManager_enable(World, enabled) = [enabled |-> enabled, w |-> World]
    /\ last.op = "disable" =>
          /\ ~enabled /\ last.delta = "same"
          /\ CacheManager_disable(World, enabled) = [enabled |-> enabled, w |-> World]

\* C23 witness: disable() was called while the backend held two unexpired
\* entries, and they are all still there
C23_Witness ==
    /\ last.op = "disable" /\ ~enabled /\ last.delta = "same"
    /\ DOMAIN cache = RawKeys /\ DOMAIN written = RawKeys
    /\ \A k \in RawKeys :
          cache[k] = written[k].val /\ expiry[k] = written[k].exp /\ now <= expiry[k]

\* C24: once update_person_attribute, update_person_attributes or
\* delete_person has succeeded for the person, no cached person read
\* (find_person_by_name, get_person_by_id, get_person_emails) returns from
\* the cache data fetched before that mutation: what is served without
\* asking upstream is the data at the current version.
C24_PersonReadsReflectWrites ==
    /\ last.op = "call" /\ ~last.invoked
    /\ last.key \in PersonKeys
    /\ last.ret # PyEmptyList
    => planVer >= 0 /\ last.ret \in {PersonAt(planVer), EmailsAt(planVer)}

\* C25: a call that starts after update_person_attribute (the mutation and
\* its invalidate_cache) has returned gets the person as upstream has it
\* now, also when another call missed before the mutation and stores its
\* result afterwards.
C25_NoStaleAfterInvalidate ==
    thr[Late].pc = "done" => thr[Late].ret = PersonAt(planVer)

\* the store w1 holds every key but key exactly as the store w0 does
OthersUntouched(w0, w1, key) ==
    /\ DOMAIN w1.cache \ {key} = DOMAIN w0.cache \ {key}
    /\ DOMAIN w1.expiry \ {key} = DOMAIN w0.expiry \ {key}
    /\ \A o \in DOMAIN w0.cache \ {key} : w1.cache[o] = w0.cache[o]
    /\ \A o \in DOMAIN w0.expiry \ {key} : w1.expiry[o] = w0.expiry[o]
    /\ w1.redis = w0.redis

\* the keys of the calls of test_function
SigKeys == {CacheManager_generate_key(test_function.name, sig.args, sig.kwargs) : sig \in Sigs}

\* C26: invalidate_cache removes at most the one entry whose key is
\* generate_key(prefix, args, kwargs), and set(k), delete(k) and get(k),
\* lazy purge included, leave the value and the expiry time of every other
\* key as they were.
C26_OtherKeysUntouched ==
    /\ \A sig \in Sigs :
          LET key == CacheManager_generate_key(test_function.name, sig.args, sig.kwargs)
              i == invalidate_cache(World, test_function.name, sig, now, TRUE)
          IN  /\ i.key = key
              /\ OthersUntouched(World, i.w, key)
              /\ key \notin DOMAIN i.w.cache \cup DOMAIN i.w.expiry
    /\ \A key \in SigKeys :
          /\ OthersUntouched(World, InMemoryCache_get(World, key, now).w, key)
          /\ OthersUntouched(World, InMemoryCache_delete(World, key).w, key)
          /\ \A value \in Results :
                OthersUntouched(World, InMemoryCache_set(World, key, value, TestTTL, now).w, key)
    /\ last.op \in {"call", "invalidate"} =>
          \A o \in DOMAIN written \ {last.key} :
             Pre(o).st = "live" =>
                o \in DOMAIN cache /\ cache[o] = written[o].val /\ expiry[o] = written[o].exp

\* C26 witness: invalidate_cache removed an unexpired entry while another
\* key's unexpired entry stayed with its value and expiry time
C26_Witness ==
    /\ last.op = "invalidate" /\ last.pre.st = "live"
    /\ last.key \notin DOMAIN cache
    /\ \E o \in DOMAIN written \ {last.key} :
          /\ Pre(o).st = "live"
          /\ o \in DOMAIN cache /\ cache[o] = written[o].val /\ expiry[o] = written[o].exp

\* C27: while the manager is disabled a call of a decorated function
\* invokes the function once and returns its result, stores nothing, and
\* neither returns nor changes an entry cached before.
C27_DisabledBypass ==
    /\ \A sig \in Sigs, result \in Results :
          LET r == cached_wrapper(World, FALSE, test_function, sig, result, now, TRUE)
          IN  r.invoked /\ r.ret = result /\ ~r.stored /\ r.w = World
    /\ last.op = "call" /\ ~enabled =>
          /\ last.invoked /\ last.ret = last.val
          /\ last.delta = "same"
          /\ last.pre.st = "live" =>
                cache[last.key] = last.pre.val /\ expiry[last.key] = written[last.key].exp

\* C27 witness: a call made while disabled returned a fresh result that
\* differs from the unexpired entry held for its key, and the entry stayed
C27_Witness ==
    /\ last.op = "call" /\ ~enabled /\ last.invoked
    /\ last.pre.st = "live"
    /\ last.ret # None /\ last.ret # last.pre.val
    /\ cache[last.key] = last.pre.val

\* C28: InMemoryCache.get(k) on an expired entry removes k from both maps
\* and returns None; on an absent or unexpired entry it changes nothing, so
\* a hit does not extend the expiry time.
C28_GetPurgesOnlyExpired ==
    /\ \A key \in RawKeys :
          LET r == InMemoryCache_get(World, key, now) IN
          IF key \in DOMAIN cache /\ now > expiry[key]
          THEN /\ r.ret = None
               /\ key \notin DOMAIN r.w.cache \cup DOMAIN r.w.expiry
               /\ OthersUntouched(World, r.w, key)
          ELSE /\ r.w = World
               /\ r.ret = IF key \in DOMAIN cache THEN cache[key] ELSE None
    /\ last.op = "get" =>
          /\ last.delta \in {"same", "purged"}
          /\ last.delta = "purged" =>
                /\ last.ret = None
                /\ last.pre.st = "stale"
                /\ last.key \notin DOMAIN cache \cup DOMAIN expiry
          /\ last.pre.st = "live" =>
                /\ last.delta = "same"
                /\ last.ret = last.pre.val
                /\ expiry[last.key] = written[last.key].exp
          /\ last.pre.st = "none" => last.delta = "same" /\ last.ret = None

\* C28 witness: a get that purged an expired entry
C28_Witness ==
    /\ last.op = "get" /\ last.delta = "purged" /\ last.ret = None
    /\ last.key \notin DOMAIN cache \cup DOMAIN expiry

\* a second C28 case: a hit after time has passed since the set, expiry as set
C28_HitWitness ==
    /\ last.op = "get" /\ last.pre.st = "live" /\ last.ret # None
    /\ now > 0 /\ expiry[last.key] = written[last.key].exp /\ expiry[last.key] = now

\* C29: cleanup_expired, run with no writer beside it, removes exactly the
\* entries whose expiry time is strictly before the current time, leaves
\* the others as they are, and changes the result of no get.
C29_CleanupExact ==
    /\ LET r == InMemoryCache_cleanup_expired(World, now).w
           gone == {k \in DOMAIN expiry : expiry[k] < now}
       IN  /\ DOMAIN r.cache = DOMAIN cache \ gone
           /\ DOMAIN r.expiry = DOMAIN expiry \ gone
           /\ \A k \in DOMAIN r.cache : r.cache[k] = cache[k]
           /\ \A k \in DOMAIN r.expiry : r.expiry[k] = expiry[k]
           /\ \A key \in RawKeys :
                 InMemoryCache_get(r, key, now).ret = InMemoryCache_get(World, key, now).ret
    /\ last.op = "cleanup_expired" =>
          /\ \A k \in DOMAIN expiry : expiry[k] >= now
          /\ \A k \in DOMAIN written :
                Pre(k).st = "live" =>
                   k \in DOMAIN cache /\ cache[k] = written[k].val
                   /\ expiry[k] = written[k].exp

\* C29 witness: a sweep removed an expired entry and kept one that expires
\* at this very time
C29_Witness ==
    /\ last.op = "cleanup_expired" /\ last.delta = "changed"
    /\ \E k \in DOMAIN written : written[k].exp < now /\ k \notin DOMAIN cache
    /\ \E k \in DOMAIN expiry : expiry[k] = now /\ cache[k] = written[k].val

\* C30: calls whose arguments have the same text share a key:
\* test_function(1) and test_function('1') get the same key, and a call
\* that finds the unexpired result of the other is served that result
\* without invoking the function.
C30_SameTextSameEntry ==
    /\ CacheManager_generate_key(test_function.name, <<PyInt1>>, <<>>)
          = CacheManager_generate_key(test_function.name, <<PyStr1>>, <<>>)
    /\ /\ last.op = "call" /\ enabled
       /\ last.pre.st = "live" /\ last.pre.by # last.sig
       => ~last.invoked /\ last.ret = last.pre.val /\ last.delta = "same"

\* C30 witness: test_function('1') served the result stored by test_function(1)
C30_Witness ==
    /\ last.op = "call" /\ enabled
    /\ last.sig = Sig(<<PyStr1>>, <<>>)
    /\ last.pre.st = "live" /\ last.pre.by = Sig(<<PyInt1>>, <<>>)
    /\ ~last.invoked /\ last.ret = last.pre.val /\ last.ret # None

\* C31: a call whose function raises gives the caller that exception, stores
\* nothing and leaves the cache as it was, apart from the purge of an
\* expired entry of its own key; the function is invoked at most once per
\* call and not at all on a hit.
C31_FailureTransparent ==
    /\ \A sig \in Sigs :
          LET r == cached_wrapper(World, enabled, test_function, sig, PyRaise, now, TRUE)
              purged == [World EXCEPT !.cache = DictDel(cache, r.key),
                                      !.expiry = DictDel(expiry, r.key)]
          IN  /\ r.invoked => r.ret = PyRaise /\ ~r.stored
              /\ r.w = World \/ (r.key \in DOMAIN expiry /\ now > expiry[r.key] /\ r.w = purged)
    /\ last.op = "call" /\ last.val = PyRaise =>
          /\ last.invoked /\ last.ret = PyRaise
          /\ last.delta \in {"same", "purged"}
          /\ last.pre.st # "stale" => last.delta = "same"
          /\ \A k \in DOMAIN written :
                Pre(k).st = "live" =>
                   k \in DOMAIN cache /\ cache[k] = written[k].val
                   /\ expiry[k] = written[k].exp
    /\ last.op = "call" /\ ~last.invoked => last.ret = last.pre.val /\ last.ret # PyRaise

\* C31 witness: the function raised in a call that found its key's entry
\* expired; the entry was purged and another key's entry stayed
C31_Witness ==
    /\ last.op = "call" /\ last.val = PyRaise /\ last.ret = PyRaise
    /\ last.delta = "purged"
    /\ \E k \in DOMAIN written \ {last.key} : Pre(k).st = "live" /\ cache[k] = written[k].val

\* every unexpired entry the history knows of, at a key other than key, is
\* held with the value and expiry time it was stored with
OthersHeld(key) ==
    \A k \in DOMAIN written \ {key} :
       Pre(k).st = "live" =>
          k \in DOMAIN cache /\ cache[k] = written[k].val /\ expiry[k] = written[k].exp

\* C32: a function decorated with key_prefix='custom_prefix' stores its
\* result for a call under generate_key('custom_prefix', args, kwargs), one
\* decorated without key_prefix under generate_key(its name, args, kwargs);
\* invalidate_cache('custom_prefix', ...) evicts the former's entry and
\* invalidate_cache('test_function', ...) leaves it.
C32_ExplicitPrefix ==
    /\ \A sig \in NameSigs :
          /\ KeyOf(test_function_custom, sig)
                = CacheManager_generate_key("custom_prefix", sig.args, sig.kwargs)
          /\ KeyOf(test_function, sig)
                = CacheManager_generate_key("test_function", sig.args, sig.kwargs)
          /\ invalidate_cache(World, "custom_prefix", sig, now, TRUE).key
                = KeyOf(test_function_custom, sig)
          /\ invalidate_cache(World, "test_function", sig, now, TRUE).key
                # KeyOf(test_function_custom, sig)
    /\ last.op = "call" /\ last.invoked /\ enabled =>
          /\ cache[last.key] = last.val
          /\ last.val = PyList <=> last.key \in {KeyOf(test_function_custom, sig) : sig \in NameSigs}
    /\ last.op = "invalidate" =>
          /\ last.key \notin DOMAIN cache
          /\ OthersHeld(last.key)

\* C32 witness: invalidate_cache('test_function', 1) was called while the
\* results of test_function(1) of both decorations were held; the one stored
\* under 'custom_prefix' is still there
C32_Witness ==
    /\ last.op = "invalidate" /\ last.pre.st = "live"
    /\ last.key = KeyOf(test_function, Positional)
    /\ last.key \notin DOMAIN cache
    /\ KeyOf(test_function_custom, Positional) \in DOMAIN cache
    /\ cache[KeyOf(test_function_custom, Positional)] = PyList

\* a second C32 case: invalidate_cache('custom_prefix', 1) evicted the entry
C32_EvictWitness ==
    /\ last.op = "invalidate" /\ last.pre.st = "live" /\ last.pre.val = PyList
    /\ last.key = KeyOf(test_function_custom, Positional)
    /\ last.key \notin DOMAIN cache

\* C34: f(1) and f(x=1) get different keys, so each form invokes the
\* function on its first call whatever the other form has stored, and
\* invalidate_cache written in one form leaves the other form's entry.
C34_CallFormsApart ==
    /\ \A f \in Decorated : KeyOf(f, Positional) # KeyOf(f, Keyword)
    /\ \A key_prefix \in Prefixes :
          invalidate_cache(World, key_prefix, Positional, now, TRUE).key
             # invalidate_cache(World, key_prefix, Keyword, now, TRUE).key
    /\ last.op = "call" /\ last.pre.st = "none" => last.invoked /\ last.ret = last.val
    /\ last.op = "call" /\ ~last.invoked => SameCall(last.pre.by, last.sig)
    /\ last.op = "invalidate" => OthersHeld(last.key)

\* C34 witness: test_function(x=1) was called for the first time while the
\* result of test_function(1) was held, and invoked the function
C34_Witness ==
    /\ last.op = "call" /\ last.sig = Keyword /\ last.ttl = TestTTL
    /\ last.pre.st = "none" /\ last.invoked
    /\ KeyOf(test_function, Positional) \in DOMAIN written
    /\ Pre(KeyOf(test_function, Positional)).st = "live"
    /\ cache[KeyOf(test_function, Positional)] = written[KeyOf(test_function, Positional)].val

\* a second C34 case: invalidate_cache('test_function', x=1) left the entry
\* of test_function(1)
C34_InvalidateWitness ==
    /\ last.op = "invalidate" /\ last.key = KeyOf(test_function, Keyword)
    /\ last.pre.st = "live"
    /\ Pre(KeyOf(test_function, Positional)).st = "live"
    /\ KeyOf(test_function, Positional) \in DOMAIN cache

\* prefixes for the comparison of keys, one of them a prefix followed by
\* what would be an argument of another
ManyPrefixes == Prefixes \cup {"test_function:1", "func1", "func2"}
ManySigs == NameSigs \cup {Sig(<<>>, <<>>), Sig(<<PyStr1>>, <<>>)}

\* C36: generate_key gives different keys for different prefixes whatever
\* the arguments, so a function never gets the result of one decorated with
\* another prefix; two functions with the same name and no key_prefix,
\* called with the same arguments, use one key, and each is served what the
\* other stored.
C36_PrefixIsolation ==
    /\ \A p \in ManyPrefixes, q \in ManyPrefixes, a \in ManySigs, b \in ManySigs :
          p # q => CacheManager_generate_key(p, a.args, a.kwargs)
                      # CacheManager_generate_key(q, b.args, b.kwargs)
    /\ \A sig \in NameSigs :
          /\ KeyOf(test_function, sig) = KeyOf(test_function_again, sig)
          /\ KeyOf(test_function, sig) # KeyOf(test_function_custom, sig)
    /\ last.op = "call" /\ ~last.invoked =>
          IF last.key \in {KeyOf(test_function_custom, sig) : sig \in NameSigs}
          THEN last.ret = PyList
          ELSE last.ret \in {PyInt10, PyNested}

\* C36 witness: test_function decorated with ttl=1 was served, without being
\* invoked, the result the other test_function stored
C36_Witness ==
    /\ last.op = "call" /\ last.ttl = TestTTL /\ ~last.invoked
    /\ last.ret = Returns(test_function_again)
    /\ KeyOf(test_function_custom, last.sig) \in DOMAIN cache

\* C33: a value a call gets from the cache was stored at most ttl time units
\* before that call, a hit leaves the expiry time as the set made it, and
\* a call that finds its entry older than ttl invokes the function again.
C33_BoundedStaleness ==
    /\ last.op = "call" /\ ~last.invoked =>
          /\ last.pre.st = "live"
          /\ now - (written[last.key].exp - last.ttl) <= last.ttl
          /\ last.ret = written[last.key].val
          /\ expiry[last.key] = written[last.key].exp
    /\ last.op = "call" /\ last.pre.st = "stale" =>
          /\ last.invoked
          /\ enabled /\ last.val # None => expiry[last.key] = now + last.ttl

\* C33 witness: a hit on an entry stored exactly ttl time units earlier
C33_Witness ==
    /\ last.op = "call" /\ ~last.invoked /\ last.ret # None
    /\ now - (written[last.key].exp - last.ttl) = last.ttl
    /\ expiry[last.key] = now

\* a second C33 case: the entry is older than ttl and the function is invoked
\* again, its result stored for another ttl
C33_ReinvokeWitness ==
    /\ last.op = "call" /\ last.pre.st = "stale" /\ last.invoked /\ enabled
    /\ last.val # None /\ expiry[last.key] = now + last.ttl

\* C35: get_person_emails returns [] when upstream fails, the wrapper stores
\* that [] for the full ttl and later calls within it get [] without
\* upstream being asked; get_person_by_id returns None when upstream fails,
\* which is not stored, so the next call asks upstream again.
C35_FailureListsCached ==
    /\ LET r == cached_wrapper(World, TRUE, get_person_emails, PersonSig, PyEmptyList, now, TRUE)
           n == cached_wrapper(World, TRUE, get_person_by_id, PersonSig, None, now, TRUE)
       IN  /\ r.invoked => /\ r.stored /\ r.ret = PyEmptyList
                           /\ r.w.cache[r.key] = PyEmptyList
                           /\ r.w.expiry[r.key] = now + PersonTTL
           /\ n.invoked => ~n.stored /\ n.ret = None /\ n.key \notin DOMAIN n.w.cache
    /\ last.op = "call" /\ last.invoked /\ last.val = PyEmptyList =>
          cache[last.key] = PyEmptyList /\ expiry[last.key] = now + last.ttl
    /\ last.op = "call" /\ last.pre.st = "live" /\ last.pre.val = PyEmptyList =>
          ~last.invoked /\ last.ret = PyEmptyList
    /\ last.op = "call" /\ last.invoked /\ last.val = None =>
          last.ret = None /\ last.key \notin DOMAIN cache

\* C35 witness: a later call of get_person_emails, the person being there
\* upstream, is served the [] stored when upstream failed
C35_Witness ==
    /\ last.op = "call" /\ ~last.invoked /\ last.ret = PyEmptyList
    /\ last.ttl = PersonTTL /\ planVer >= 0 /\ now > 0
    /\ now < expiry[last.key]

\* a second C35 case: get_person_by_id returned None and left nothing stored
C35_NoneWitness ==
    /\ last.op = "call" /\ last.invoked /\ last.val = None /\ last.ret = None
    /\ last.key = RaceKey /\ last.key \notin DOMAIN cache

\* C37: when get(k) has found k expired and, before it deletes anything,
\* another thread completes set(k, v, ttl) with ttl > 0, no other set, delete
\* or clear overlapping that set or called since, then once both calls have
\* finished get(k) returns v until v's own expiry.
C37_PurgeKeepsConcurrentSet ==
    \A j \in DOMAIN thr :
        /\ thr[j].op = "get" /\ thr[j].pc = "done"
        /\ thr[j].saw.some /\ now <= thr[j].saw.exp
        /\ \A i \in DOMAIN thr : ~Running(thr[i])
        => InMemoryCache_get(World, ThreadKey, now).ret = thr[j].saw.val

\* C38: after any sequence of InMemoryCache operations run one after
\* another, the value map and the expiry map have the same keys.
C38_MapsSameKeys ==
    /\ DOMAIN cache = DOMAIN expiry
    /\ \A key \in RawKeys :
          /\ LET w == InMemoryCache_get(World, key, now).w
             IN  DOMAIN w.cache = DOMAIN w.expiry
          /\ LET w == InMemoryCache_delete(World, key).w
             IN  DOMAIN w.cache = DOMAIN w.expiry
          /\ LET w == InMemoryCache_exists(World, key, now).w
             IN  DOMAIN w.cache = DOMAIN w.expiry
          /\ \A value \in Values, ttl \in TTLs :
                LET w == InMemoryCache_set(World, key, value, ttl, now).w
                IN  DOMAIN w.cache = DOMAIN w.expiry
    /\ LET w == InMemoryCache_clear(World).w IN DOMAIN w.cache = DOMAIN w.expiry
    /\ LET w == InMemoryCache_cleanup_expired(World, now).w
       IN  DOMAIN w.cache = DOMAIN w.expiry

\* C38 witness: a get purged an expired key while the other key stayed, and
\* both maps hold exactly that other key
C38_Witness ==
    /\ last.op = "get" /\ last.delta = "purged"
    /\ DOMAIN cache = RawKeys \ {last.key}
    /\ DOMAIN expiry = RawKeys \ {last.key}

====
